---- MODULE Spec2Model ----
(***************************************************************************)
(* A model of stix-rs: the StixObjectEnum dispatcher (decode / encode),    *)
(* the per-kind serde structures it routes to, Bundle decoding, and the    *)
(* content-derived identifiers of observable objects.                      *)
(*                                                                         *)
(* JSON values are records tagged by j: "null", "str", "num", "bool",      *)
(* "arr", "obj".  A decoded chrono DateTime is the record tagged "time".   *)
(* A JSON text (the output of serde_json::to_string) is a sequence of      *)
(* <<key, value>> members, so that a repeated member name is visible.      *)
(***************************************************************************)
EXTENDS Integers, Sequences, FiniteSets, TLC

VARIABLES
    now,        \* the wall clock read by chrono::Utc::now()
    wire,       \* the serde_json::Value handed to StixObjectEnum::deserialize
    res,        \* result of the first decode of wire
    resAt,      \* clock value at which res was computed
    res2,       \* result of a second decode of the same wire
    enc,        \* JSON text produced by encoding the held object
    redec,      \* result of decoding the parsed enc
    held,       \* a StixObjectEnum value held by the caller (decoded or built)
    bundleWire, \* the `objects` array of a bundle on the wire
    bundleRes,  \* result of decoding the bundle
    objA, objB, \* two observable objects whose id() is compared
    idA, idB,   \* results of id() on objA and objB
    idA2,       \* result of a repeated id() call on objA
    patInput,   \* a pattern text handed to validate_pattern, with how it was composed
    verdict,    \* outcome of validate_pattern
    parts,      \* PatternBuilder.parts
    calls,      \* the calls made on the PatternBuilder so far
    rendered,   \* result of PatternBuilder::build
    orig,       \* the held object as it was before the first new_version call
    versions,   \* number of new_version calls on the held object
    indBuilder, \* an IndicatorBuilder with its setters applied
    indRes,     \* outcome of IndicatorBuilder::build
    indCheck,   \* outcome of Indicator::validate_pattern on the built Indicator
    reqBuilder, \* a SightingBuilder, MalwareBuilder or IdentityBuilder with its setters applied
    reqRes,     \* outcome of its build
    createdRes, \* result of StixObjectEnum::created on the held object
    getRes      \* the argument and the result of Bundle::get on the decoded bundle

patternVars == <<patInput, verdict, parts, calls, rendered>>

buildVars == <<orig, versions, indBuilder, indRes>>

queryVars == <<indCheck, reqBuilder, reqRes, createdRes, getRes>>

vars == <<now, wire, res, resAt, res2, enc, redec, held,
          bundleWire, bundleRes, objA, objB, idA, idB, idA2,
          patternVars, buildVars, queryVars>>

(***************************************************************************)
(* Bounds of the model.                                                    *)
(***************************************************************************)
MaxClock == 1       \* the clock advances at most this many times
MaxEdits == 1       \* number of member edits applied to a template wire object
MaxBundleLen == 2   \* number of objects in a bundle on the wire
MaxVersions == 2    \* number of new_version calls on one object
MaxClauses == 3     \* number of clauses of a composed pattern text
MaxStack == 2       \* nested validate_pattern calls the thread's stack has room for
MaxCalls == 5       \* number of calls on one PatternBuilder before build

(***************************************************************************)
(* JSON values (serde_json::Value) and maps.                               *)
(***************************************************************************)
JNull == [j |-> "null"]
JStr(s) == [j |-> "str", s |-> s]
JNum(n) == [j |-> "num", n |-> n]
JBool(b) == [j |-> "bool", b |-> b]
JArr(a) == [j |-> "arr", a |-> a]
JObj(m) == [j |-> "obj", m |-> m]
RTime(t) == [j |-> "time", t |-> t]

EmptyMap == [k \in {} |-> JNull]

Restrict(m, S) == [k \in S |-> m[k]]

Without(m, S) == [k \in (DOMAIN m) \ S |-> m[k]]

Put(m, k, v) == [x \in (DOMAIN m) \cup {k} |-> IF x = k THEN v ELSE m[x]]

Range(s) == {s[i] : i \in DOMAIN s}

StartsWith(s, p) == Len(s) >= Len(p) /\ SubSeq(s, 1, Len(p)) = p

(***************************************************************************)
(* chrono: parsing and formatting of RFC 3339 timestamps.  Instants are    *)
(* the seconds 0..9 of one minute; a timestamp has a canonical text and a  *)
(* second text with a fractional part that denotes the same instant.       *)
(***************************************************************************)
Instants == 0..9

Digit(n) == <<"0", "1", "2", "3", "4", "5", "6", "7", "8", "9">>[n + 1]

FormatTime(t) == "2020-01-01T00:00:0" \o Digit(t) \o "Z"

FractionalTime(t) == "2020-01-01T00:00:0" \o Digit(t) \o ".000Z"

IsRfc3339(s) == \E t \in Instants : s = FormatTime(t) \/ s = FractionalTime(t)

ParseTime(s) == CHOOSE t \in Instants : s = FormatTime(t) \/ s = FractionalTime(t)

(***************************************************************************)
(* serde field descriptions.  A field has its wire key (after rename_all   *)
(* and rename), its Rust type and a mode: "req" (no default, not Option),  *)
(* "opt" (Option), "dflt" (serde default), "optskip" (Option with          *)
(* skip_serializing_if = Option::is_none).                                 *)
(***************************************************************************)
F(key, ty, mode) == [key |-> key, ty |-> ty, mode |-> mode]

Keys(fields) == {fields[i].key : i \in DOMAIN fields}

FieldOf(fields, k) == fields[CHOOSE i \in DOMAIN fields : fields[i].key = k]

\* nested structures without a flattened map: unknown members are ignored
KillChainPhase == <<F("kill_chain_name", "string", "req"), F("phase_name", "string", "req")>>

GranularMarking == <<F("marking-ref", "string", "opt"), F("selectors", "strs", "req"),
                     F("lang", "string", "opt")>>

ExternalReference == <<F("source-name", "string", "req"), F("description", "string", "opt"),
                       F("url", "string", "opt"), F("external-id", "string", "opt"),
                       F("hashes", "strmap", "opt")>>

SubFields(ty) ==
    CASE ty = "kcps" -> KillChainPhase
      [] ty = "gms" -> GranularMarking
      [] ty = "extrefs" -> ExternalReference

IdentityClass == {"individual", "group", "system", "organization", "class", "unspecified"}

IndicatorPatternType == {"stix", "pcre", "snort", "suricata", "yara"}

\* largest value of the narrow unsigned types; every number of the model is
\* below the largest u32 and u64
InRange(ty, n) ==
    CASE ty = "u8" -> n >= 0 /\ n <= 255
      [] ty = "u16" -> n >= 0 /\ n <= 65535
      [] ty \in {"u32", "u64"} -> n >= 0

\* whether a JSON value deserializes into a scalar or collection type
AcceptsFlat(ty, v) ==
    CASE ty = "string" -> v.j = "str"
      [] ty = "time" -> v.j = "str" /\ IsRfc3339(v.s)
      [] ty \in {"u8", "u16", "u32", "u64"} -> v.j = "num" /\ InRange(ty, v.n)
      [] ty = "f64" -> v.j = "num"
      [] ty = "bool" -> v.j = "bool"
      [] ty = "strs" -> v.j = "arr" /\ \A i \in DOMAIN v.a : v.a[i].j = "str"
      [] ty = "strmap" -> v.j = "obj" /\ \A k \in DOMAIN v.m : v.m[k].j = "str"
      [] ty = "strmapmap" -> v.j = "obj" /\ \A k \in DOMAIN v.m :
                                 v.m[k].j = "obj" /\ \A q \in DOMAIN v.m[k].m : v.m[k].m[q].j = "str"
      [] ty = "valmap" -> v.j = "obj"
      [] ty = "value" -> TRUE
      [] ty = "IdentityClass" -> v.j = "str" /\ v.s \in IdentityClass
      [] ty = "IndicatorPatternType" -> v.j = "str" /\ v.s \in IndicatorPatternType

\* a member of a nested structure: present and well typed, or absent/null where optional
SubMemberOk(f, m) ==
    IF f.key \in DOMAIN m /\ ~(f.mode = "opt" /\ m[f.key].j = "null")
    THEN AcceptsFlat(f.ty, m[f.key])
    ELSE f.mode = "opt"

SubOk(fields, v) == v.j = "obj" /\ \A i \in DOMAIN fields : SubMemberOk(fields[i], v.m)

Accepts(ty, v) ==
    IF ty \in {"kcps", "gms", "extrefs"}
    THEN v.j = "arr" /\ \A i \in DOMAIN v.a : SubOk(SubFields(ty), v.a[i])
    ELSE AcceptsFlat(ty, v)

\* the Rust value of a nested structure: every field, absent options as None
SubValue(fields, v) ==
    JObj([k \in Keys(fields) |-> IF k \in DOMAIN v.m THEN v.m[k] ELSE JNull])

\* the Rust value a well-typed JSON value deserializes to
FromJson(ty, v) ==
    CASE ty = "time" -> RTime(ParseTime(v.s))
      [] ty \in {"kcps", "gms", "extrefs"} ->
            JArr([i \in DOMAIN v.a |-> SubValue(SubFields(ty), v.a[i])])
      [] OTHER -> v

\* the JSON value a Rust value serializes to (chrono writes the canonical text)
ToJson(rv) == IF rv.j = "time" THEN JStr(FormatTime(rv.t)) ELSE rv

(***************************************************************************)
(* The structures.  CommonProperties is flattened into every domain and    *)
(* relationship structure and itself ends in a flattened map of leftover   *)
(* members; observable structures end in such a map directly.              *)
(***************************************************************************)
CommonProperties ==
    <<F("type", "string", "req"), F("id", "string", "req"),
      F("spec_version", "string", "opt"),
      F("created", "time", "req"), F("modified", "time", "req"),
      F("created-by-ref", "string", "opt"), F("revoked", "bool", "opt"),
      F("labels", "strs", "opt"), F("confidence", "u8", "opt"),
      F("lang", "string", "opt"), F("external-references", "extrefs", "opt"),
      F("object-marking-refs", "strs", "opt"), F("granular-markings", "gms", "opt"),
      F("extensions", "valmap", "optskip")>>

Identity == <<F("name", "string", "req"), F("identity_class", "IdentityClass", "opt"),
              F("sectors", "strs", "opt")>>

Malware ==
    <<F("name", "string", "req"), F("description", "string", "opt"),
      F("malware_types", "strs", "dflt"), F("is_family", "bool", "dflt"),
      F("aliases", "strs", "opt"), F("kill_chain_phases", "kcps", "opt"),
      F("first_seen", "time", "opt"), F("last_seen", "time", "opt"),
      F("operating_system_refs", "strs", "opt"),
      F("architecture_execution_envs", "strs", "opt"),
      F("implementation_languages", "strs", "opt"),
      F("capabilities", "strs", "opt"), F("sample_refs", "strs", "opt")>>

Indicator ==
    <<F("name", "string", "opt"), F("description", "string", "opt"),
      F("indicator_types", "strs", "opt"), F("pattern", "string", "req"),
      F("pattern_type", "IndicatorPatternType", "dflt"),
      F("pattern_version", "string", "opt"), F("valid_from", "time", "dflt"),
      F("valid_until", "time", "opt"), F("kill_chain_phases", "kcps", "opt")>>

Sighting == <<F("count", "u32", "req"), F("sighting_of_ref", "string", "req"),
              F("where_sighted_refs", "strs", "req")>>

Relationship == <<F("source_ref", "string", "req"), F("target_ref", "string", "req"),
                  F("relationship_type", "string", "req")>>

ObservedData == <<F("first_observed", "time", "req"), F("last_observed", "time", "req"),
                  F("number_observed", "u32", "req"), F("object_refs", "strs", "req")>>

AttackPattern == <<F("name", "string", "req"), F("description", "string", "opt")>>

Campaign == <<F("name", "string", "req"), F("description", "string", "opt"),
              F("first_seen", "time", "opt"), F("last_seen", "time", "opt")>>

CourseOfAction == <<F("name", "string", "req"), F("description", "string", "opt")>>

Grouping == <<F("name", "string", "opt"), F("description", "string", "opt"),
              F("context", "string", "req"), F("object_refs", "strs", "req")>>

Incident == <<F("name", "string", "req"), F("description", "string", "opt")>>

Infrastructure == <<F("name", "string", "req"), F("description", "string", "opt"),
                    F("infrastructure_types", "strs", "opt")>>

IntrusionSet == <<F("name", "string", "req"), F("description", "string", "opt")>>

Location ==
    <<F("name", "string", "opt"), F("description", "string", "opt"),
      F("latitude", "f64", "opt"), F("longitude", "f64", "opt"), F("precision", "f64", "opt"),
      F("region", "string", "opt"), F("country", "string", "opt"),
      F("administrative-area", "string", "opt"), F("city", "string", "opt"),
      F("street-address", "string", "opt"), F("postal-code", "string", "opt")>>

Note == <<F("abstract", "string", "opt"), F("content", "string", "opt")>>

Opinion == <<F("explanation", "string", "opt"), F("authors", "strs", "opt"),
             F("object_refs", "strs", "req"), F("opinion", "string", "req")>>

Report == <<F("name", "string", "req"), F("published", "time", "opt"),
            F("report_types", "strs", "opt"), F("object_refs", "strs", "opt")>>

ThreatActor == <<F("name", "string", "req"), F("description", "string", "opt"),
                 F("threat_actor_types", "strs", "opt")>>

Tool == <<F("name", "string", "req"), F("description", "string", "opt"),
          F("tool-types", "strs", "opt")>>

MarkingDefinition == <<F("definition-type", "string", "req"), F("definition", "value", "req"),
                       F("name", "string", "opt")>>

LanguageContent == <<F("object-ref", "string", "req"), F("object-modified", "time", "req"),
                     F("contents", "strmapmap", "req")>>

ExtensionDefinition ==
    <<F("name", "string", "req"), F("description", "string", "opt"),
      F("schema", "string", "req"), F("version", "string", "req"),
      F("extension-types", "strs", "req")>>

\* the two domain structures whose fields the dispatcher's accessors show
Vulnerability == <<F("name", "string", "req")>>

MalwareAnalysis == <<>>

File == <<F("hashes", "strmap", "opt"), F("name", "string", "opt"), F("size", "u64", "opt"),
          F("mime_type", "string", "opt"), F("parent_directory_ref", "string", "opt"),
          F("content_ref", "string", "opt")>>

NetworkTraffic ==
    <<F("start", "time", "opt"), F("end", "time", "opt"), F("protocols", "strs", "opt"),
      F("src_ref", "string", "opt"), F("dst_ref", "string", "opt"),
      F("src_port", "u16", "opt"), F("dst_port", "u16", "opt")>>

DomainName == <<F("value", "string", "req"), F("resolves_to_refs", "strs", "opt")>>

IPv4Addr == <<F("value", "string", "req"), F("resolves_to_refs", "strs", "opt")>>

IPv6Addr == <<F("value", "string", "req")>>

Url == <<F("value", "string", "req"), F("url-scheme", "string", "opt"),
         F("host", "string", "opt"), F("port", "u16", "opt"), F("path", "string", "opt")>>

Process == <<F("name", "string", "opt"), F("pid", "u32", "opt"),
             F("command-line", "string", "opt"), F("created", "time", "opt")>>

Artifact == <<F("value", "string", "opt")>>

MacAddr == <<F("value", "string", "req")>>

Software == <<F("name", "string", "opt"), F("cpe", "string", "opt"), F("lang", "string", "opt")>>

UserAccount == <<F("user_id", "string", "opt"), F("account_login", "string", "opt"),
                 F("display_name", "string", "opt")>>

EmailAddr == <<F("value", "string", "req")>>

EmailMessage == <<F("subject", "string", "opt"), F("body", "string", "opt"),
                  F("from", "string", "opt"), F("to", "strs", "opt"), F("date", "time", "opt")>>

SocketAddr == <<F("value", "string", "opt")>>

AutonomousSystem == <<F("number", "u32", "opt"), F("name", "string", "opt")>>

SoftwarePackage == <<F("name", "string", "opt"), F("version", "string", "opt"),
                     F("cpe", "string", "opt"), F("created", "time", "opt")>>

Directory == <<F("path", "string", "opt"), F("path-enc", "string", "opt")>>

Mutex == <<F("name", "string", "opt"), F("currently-owned", "bool", "opt")>>

WindowsRegistryKey == <<F("key", "string", "opt"), F("values", "strmap", "opt")>>

X509Certificate == <<F("subject", "string", "opt"), F("issuer", "string", "opt"),
                     F("valid_from", "time", "opt"), F("valid_until", "time", "opt")>>

(***************************************************************************)
(* StixObjectEnum: its variants, the structure each variant owns, and the  *)
(* tag the derived Serialize writes for it (kebab-case of the variant name *)
(* unless renamed).                                                        *)
(***************************************************************************)
Observables ==
    {"File", "NetworkTraffic", "DomainName", "IPv4Addr", "Url", "Process", "Artifact",
     "IPv6Addr", "MacAddr", "Software", "UserAccount", "EmailAddr", "EmailMessage",
     "SocketAddr", "AutonomousSystem", "SoftwarePackage", "Directory", "Mutex",
     "WindowsRegistryKey", "X509Certificate"}

StructOf(variant) ==
    CASE variant = "Identity" -> Identity
      [] variant = "Malware" -> Malware
      [] variant = "Indicator" -> Indicator
      [] variant = "ObservedData" -> ObservedData
      [] variant = "MalwareAnalysis" -> MalwareAnalysis
      [] variant = "Sighting" -> Sighting
      [] variant = "Relationship" -> Relationship
      [] variant = "File" -> File
      [] variant = "Incident" -> Incident
      [] variant = "Location" -> Location
      [] variant = "NetworkTraffic" -> NetworkTraffic
      [] variant = "DomainName" -> DomainName
      [] variant = "IPv4Addr" -> IPv4Addr
      [] variant = "Url" -> Url
      [] variant = "Process" -> Process
      [] variant = "Artifact" -> Artifact
      [] variant = "IPv6Addr" -> IPv6Addr
      [] variant = "MacAddr" -> MacAddr
      [] variant = "Software" -> Software
      [] variant = "UserAccount" -> UserAccount
      [] variant = "EmailAddr" -> EmailAddr
      [] variant = "EmailMessage" -> EmailMessage
      [] variant = "SocketAddr" -> SocketAddr
      [] variant = "AutonomousSystem" -> AutonomousSystem
      [] variant = "SoftwarePackage" -> SoftwarePackage
      [] variant = "Directory" -> Directory
      [] variant = "Mutex" -> Mutex
      [] variant = "WindowsRegistryKey" -> WindowsRegistryKey
      [] variant = "X509Certificate" -> X509Certificate
      [] variant = "AttackPattern" -> AttackPattern
      [] variant = "Campaign" -> Campaign
      [] variant = "ThreatActor" -> ThreatActor
      [] variant = "Tool" -> Tool
      [] variant = "Vulnerability" -> Vulnerability
      [] variant = "CourseOfAction" -> CourseOfAction
      [] variant = "IntrusionSet" -> IntrusionSet
      [] variant = "Infrastructure" -> Infrastructure
      [] variant = "Report" -> Report
      [] variant = "Note" -> Note
      [] variant = "Opinion" -> Opinion
      [] variant = "Grouping" -> Grouping
      [] variant = "MarkingDefinition" -> MarkingDefinition
      [] variant = "LanguageContent" -> LanguageContent
      [] variant = "ExtensionDefinition" -> ExtensionDefinition

VariantTag(variant) ==
    CASE variant = "Identity" -> "identity"
      [] variant = "Malware" -> "malware"
      [] variant = "Indicator" -> "indicator"
      [] variant = "ObservedData" -> "observed-data"
      [] variant = "MalwareAnalysis" -> "malware-analysis"
      [] variant = "Sighting" -> "sighting"
      [] variant = "Relationship" -> "relationship"
      [] variant = "File" -> "file"
      [] variant = "Incident" -> "incident"
      [] variant = "Location" -> "location"
      [] variant = "NetworkTraffic" -> "network-traffic"
      [] variant = "DomainName" -> "domain-name"
      [] variant = "IPv4Addr" -> "ipv4-addr"
      [] variant = "Url" -> "url"
      [] variant = "Process" -> "process"
      [] variant = "Artifact" -> "artifact"
      [] variant = "IPv6Addr" -> "ipv6-addr"
      [] variant = "MacAddr" -> "mac-addr"
      [] variant = "Software" -> "software"
      [] variant = "UserAccount" -> "user-account"
      [] variant = "EmailAddr" -> "email-addr"
      [] variant = "EmailMessage" -> "email-message"
      [] variant = "SocketAddr" -> "socket-addr"
      [] variant = "AutonomousSystem" -> "autonomous-system"
      [] variant = "SoftwarePackage" -> "software-package"
      [] variant = "Directory" -> "directory"
      [] variant = "Mutex" -> "mutex"
      [] variant = "WindowsRegistryKey" -> "windows-registry-key"
      [] variant = "X509Certificate" -> "x509-certificate"
      [] variant = "AttackPattern" -> "attack-pattern"
      [] variant = "Campaign" -> "campaign"
      [] variant = "ThreatActor" -> "threat-actor"
      [] variant = "Tool" -> "tool"
      [] variant = "Vulnerability" -> "vulnerability"
      [] variant = "CourseOfAction" -> "course-of-action"
      [] variant = "IntrusionSet" -> "intrusion-set"
      [] variant = "Infrastructure" -> "infrastructure"
      [] variant = "Report" -> "report"
      [] variant = "Note" -> "note"
      [] variant = "Opinion" -> "opinion"
      [] variant = "Grouping" -> "grouping"
      [] variant = "MarkingDefinition" -> "marking-definition"
      [] variant = "LanguageContent" -> "language-content"
      [] variant = "ExtensionDefinition" -> "extension-definition"
      [] variant = "Custom" -> "custom"

HasCommon(variant) == variant \notin Observables

\* every member name the structure of a variant reads into a named field
NamedKeys(variant) ==
    Keys(StructOf(variant)) \cup (IF HasCommon(variant) THEN Keys(CommonProperties) ELSE {})

AllFields(variant) ==
    IF HasCommon(variant) THEN CommonProperties \o StructOf(variant) ELSE StructOf(variant)

(***************************************************************************)
(* serde defaults of objects.rs.                                           *)
(***************************************************************************)
default_pattern_type == JStr("stix")

default_valid_from(clock) == RTime(clock)

DefaultOf(key, clock) ==
    CASE key = "pattern_type" -> default_pattern_type
      [] key = "valid_from" -> default_valid_from(clock)
      [] key = "malware_types" -> JArr(<<>>)
      [] key = "is_family" -> JBool(FALSE)

(***************************************************************************)
(* serde_json::from_value into the structure of a variant.                 *)
(***************************************************************************)
Ok(obj) == [ok |-> TRUE, obj |-> obj]

Err(msg) == [ok |-> FALSE, src |-> "dispatch", msg |-> msg]

\* an error raised inside the concrete structure (serde's message text is not modelled)
ConcreteErr(variant) == [ok |-> FALSE, src |-> "concrete", variant |-> variant]

FieldOk(f, m) ==
    IF f.key \in DOMAIN m
    THEN IF f.mode \in {"opt", "optskip"} /\ m[f.key].j = "null"
         THEN TRUE
         ELSE Accepts(f.ty, m[f.key])
    ELSE f.mode # "req"

FieldValue(f, m, clock) ==
    IF f.key \in DOMAIN m
    THEN IF f.mode \in {"opt", "optskip"} /\ m[f.key].j = "null"
         THEN JNull
         ELSE FromJson(f.ty, m[f.key])
    ELSE IF f.mode = "dflt" THEN DefaultOf(f.key, clock) ELSE JNull

\* variant of from_value: members that no named field takes are ignored
from_value_ignoring_unknown(variant, m, clock) ==
    LET fields == AllFields(variant) IN
    IF \A i \in DOMAIN fields : FieldOk(fields[i], m)
    THEN Ok([variant |-> variant,
             named |-> [k \in Keys(fields) |-> FieldValue(FieldOf(fields, k), m, clock)],
             custom |-> EmptyMap])
    ELSE ConcreteErr(variant)

\* named fields take their members; every other member lands in the flattened map
from_value(variant, m, clock) ==
    LET fields == AllFields(variant) IN
    IF \A i \in DOMAIN fields : FieldOk(fields[i], m)
    THEN Ok([variant |-> variant,
             named |-> [k \in Keys(fields) |-> FieldValue(FieldOf(fields, k), m, clock)],
             custom |-> Without(m, Keys(fields))])
    ELSE ConcreteErr(variant)

(***************************************************************************)
(* impl Deserialize for StixObjectEnum: the match on the `type` string, in *)
(* the order of its arms.                                                  *)
(***************************************************************************)
Arm(pat, variant) == [pat |-> pat, variant |-> variant]

MatchArms ==
    <<Arm("identity", "Identity"), Arm("malware", "Malware"), Arm("indicator", "Indicator"),
      Arm("observed-data", "ObservedData"), Arm("file", "File"),
      Arm("network-traffic", "NetworkTraffic"), Arm("domain-name", "DomainName"),
      Arm("ipv4-addr", "IPv4Addr"), Arm("ipv6-addr", "IPv6Addr"), Arm("url", "Url"),
      Arm("process", "Process"), Arm("artifact", "Artifact"), Arm("mac-addr", "MacAddr"),
      Arm("software", "Software"), Arm("user-account", "UserAccount"),
      Arm("email-addr", "EmailAddr"), Arm("email-message", "EmailMessage"),
      Arm("socket-addr", "SocketAddr"), Arm("autonomous-system", "AutonomousSystem"),
      Arm("software-package", "SoftwarePackage"), Arm("directory", "Directory"),
      Arm("mutex", "Mutex"), Arm("windows-registry-key", "WindowsRegistryKey"),
      Arm("x509-certificate", "X509Certificate"), Arm("malware-analysis", "MalwareAnalysis"),
      Arm("sighting", "Sighting"), Arm("grouping", "Grouping"), Arm("incident", "Incident"),
      Arm("location", "Location"), Arm("opinion", "Opinion"),
      Arm("relationship", "Relationship"), Arm("marking-definition", "MarkingDefinition"),
      Arm("language-content", "LanguageContent"),
      Arm("extension-definition", "ExtensionDefinition"),
      Arm("x-", "Custom"),
      Arm("attack-pattern", "AttackPattern"), Arm("campaign", "Campaign"),
      Arm("threat-actor", "ThreatActor"), Arm("tool", "Tool"),
      Arm("vulnerability", "Vulnerability"), Arm("course-of-action", "CourseOfAction"),
      Arm("intrusion-set", "IntrusionSet"), Arm("infrastructure", "Infrastructure"),
      Arm("report", "Report"), Arm("note", "Note")>>

\* variant of ArmMatches: every arm matches on a prefix of the type string
ArmMatchesPrefix(arm, t) == StartsWith(t, arm.pat)

\* a literal arm matches the whole string; the guarded arm matches a prefix
ArmMatches(arm, t) ==
    IF arm.variant = "Custom" THEN StartsWith(t, arm.pat) ELSE t = arm.pat

\* v.get("type").and_then(Value::as_str) is Some
HasTypeString(v) == v.j = "obj" /\ "type" \in DOMAIN v.m /\ v.m["type"].j = "str"

\* the two messages of the dispatcher (the source writes type between backquotes)
MissingOrInvalidType == "missing or invalid type field"

UnknownType(t) == "unknown type: " \o t

Custom(v) == [variant |-> "Custom", named |-> EmptyMap, custom |-> v.m]

\* variant of Deserialize: an absent or non-string type is read as the empty string
DeserializeDefaultType(v, clock) ==
    LET t == IF HasTypeString(v) THEN v.m["type"].s ELSE ""
        hits == {i \in DOMAIN MatchArms : ArmMatches(MatchArms[i], t)}
    IN IF hits = {}
       THEN Err(UnknownType(t))
       ELSE LET arm == MatchArms[CHOOSE i \in hits : \A q \in hits : i <= q] IN
            IF arm.variant = "Custom"
            THEN Ok(Custom(v))
            ELSE from_value(arm.variant, v.m, clock)

Deserialize(v, clock) ==
    IF ~HasTypeString(v)
    THEN Err(MissingOrInvalidType)
    ELSE LET t == v.m["type"].s
             hits == {i \in DOMAIN MatchArms : ArmMatches(MatchArms[i], t)}
         IN IF hits = {}
            THEN Err(UnknownType(t))
            ELSE LET arm == MatchArms[CHOOSE i \in hits : \A q \in hits : i <= q] IN
                 IF arm.variant = "Custom"
                 THEN Ok(Custom(v))
                 ELSE from_value(arm.variant, v.m, clock)

(***************************************************************************)
(* derived Serialize for StixObjectEnum (internally tagged): the tag       *)
(* member is written first, then the members of the wrapped value.  The    *)
(* members of a flattened HashMap come in an order the caller cannot       *)
(* choose; order lists its keys in the order the map yields them.          *)
(***************************************************************************)
FieldMembers(fields, named) ==
    LET written(f) == ~(f.mode = "optskip" /\ named[f.key].j = "null")
        kept == SelectSeq(fields, written)
    IN [i \in DOMAIN kept |-> <<kept[i].key, ToJson(named[kept[i].key])>>]

MapMembers(m, order) == [i \in DOMAIN order |-> <<order[i], m[order[i]]>>]

\* the orders in which a HashMap may yield its keys
Orders(m) ==
    {o \in [1..Cardinality(DOMAIN m) -> DOMAIN m] : \A k \in DOMAIN m : \E i \in DOMAIN o : o[i] = k}

\* the one order in which a serde_json::Map yields its keys
RECURSIVE KeyOrder(_)
KeyOrder(S) ==
    IF S = {} THEN <<>> ELSE LET k == CHOOSE x \in S : TRUE IN <<k>> \o KeyOrder(S \ {k})

EncodeOrders(obj) ==
    IF obj.variant = "Custom" THEN {KeyOrder(DOMAIN obj.custom)} ELSE Orders(obj.custom)

Serialize(obj, order) ==
    LET tag == <<"type", JStr(VariantTag(obj.variant))>> IN
    IF obj.variant = "Custom"
    THEN <<tag>> \o MapMembers(obj.custom, order)
    ELSE IF HasCommon(obj.variant)
         THEN <<tag>> \o FieldMembers(CommonProperties, obj.named)
                      \o MapMembers(obj.custom, order)
                      \o FieldMembers(StructOf(obj.variant), obj.named)
         ELSE <<tag>> \o FieldMembers(StructOf(obj.variant), obj.named)
                      \o MapMembers(obj.custom, order)

\* serde_json::from_str into a Value: a repeated member name keeps its last value
ParseObject(text) ==
    LET names == {text[i][1] : i \in DOMAIN text}
        last(k) == CHOOSE i \in DOMAIN text :
                       text[i][1] = k /\ \A q \in DOMAIN text : text[q][1] = k => q <= i
    IN JObj([k \in names |-> text[last(k)][2]])

(***************************************************************************)
(* Builders and construction of common properties.                         *)
(***************************************************************************)
generate_stix_id(object_type, uuid) == object_type \o "--" \o uuid

\* CommonProperties::new over CommonProperties::default; uuid is the random v4 draw
CommonProperties_new(object_type, created_by_ref, uuid, clock) ==
    [k \in Keys(CommonProperties) |->
        CASE k = "type" -> JStr(object_type)
          [] k = "id" -> JStr(generate_stix_id(object_type, uuid))
          [] k = "spec_version" -> JStr("2.1")
          [] k \in {"created", "modified"} -> RTime(clock)
          [] k = "created-by-ref" -> created_by_ref
          [] OTHER -> JNull]

BuilderError(field) == [ok |-> FALSE, src |-> "builder", field |-> field]

\* b holds the builder's Option fields (JNull when unset) and its property map
IdentityBuilder_build(b, uuid, clock) ==
    IF b.name = JNull
    THEN BuilderError("name")
    ELSE Ok([variant |-> "Identity",
             named |-> [k \in NamedKeys("Identity") |->
                          IF k \in Keys(Identity)
                          THEN b[k]
                          ELSE CommonProperties_new("identity", b.created_by_ref, uuid, clock)[k]],
             custom |-> b.custom_properties])

FileBuilder_build(b) ==
    [variant |-> "File",
     named |-> [k \in Keys(File) |-> b[k]],
     custom |-> b.custom_properties]

\* MalwareBuilder::build: is_family.unwrap_or(false), malware_types.unwrap_or_default()
MalwareBuilder_build(b, uuid, clock) ==
    IF b.name = JNull
    THEN BuilderError("name")
    ELSE Ok([variant |-> "Malware",
             named |-> [k \in NamedKeys("Malware") |->
                          IF k = "is_family"
                          THEN (IF b.is_family = JNull THEN JBool(FALSE) ELSE b.is_family)
                          ELSE IF k = "malware_types"
                          THEN (IF b.malware_types = JNull THEN JArr(<<>>) ELSE b.malware_types)
                          ELSE IF k \in Keys(Malware)
                          THEN b[k]
                          ELSE CommonProperties_new("malware", b.created_by_ref, uuid, clock)[k]],
             custom |-> EmptyMap])

SightingBuilder_build(b, uuid, clock) ==
    IF b.count = JNull THEN BuilderError("count")
    ELSE IF b.sighting_of_ref = JNull THEN BuilderError("sighting_of_ref")
    ELSE IF b.where_sighted_refs = JNull THEN BuilderError("where_sighted_refs")
    ELSE Ok([variant |-> "Sighting",
             named |-> [k \in NamedKeys("Sighting") |->
                          IF k \in Keys(Sighting)
                          THEN b[k]
                          ELSE CommonProperties_new("sighting", b.created_by_ref, uuid, clock)[k]],
             custom |-> EmptyMap])

(***************************************************************************)
(* Bundle: derived Deserialize; `objects` is a Vec<StixObjectEnum>, whose  *)
(* elements are decoded in order and whose first error ends the decode.    *)
(***************************************************************************)
Bundle_deserialize(v, clock) ==
    IF v.j = "obj" /\ \A k \in {"type", "id"} : (k \in DOMAIN v.m /\ v.m[k].j = "str")
       /\ "objects" \in DOMAIN v.m /\ v.m["objects"].j = "arr"
    THEN LET elems == v.m["objects"].a
             bad == {i \in DOMAIN elems : ~Deserialize(elems[i], clock).ok}
         IN IF bad = {}
            THEN Ok([type |-> v.m["type"].s, id |-> v.m["id"].s,
                     objects |-> [i \in DOMAIN elems |-> Deserialize(elems[i], clock).obj]])
            ELSE Deserialize(elems[CHOOSE i \in bad : \A q \in bad : i <= q], clock)
    ELSE ConcreteErr("Bundle")

(***************************************************************************)
(* Identifiers.  Uuid::new_v5 over a fixed namespace is modelled as an     *)
(* injective function of its name.                                         *)
(***************************************************************************)
Uuid5(data) == "uuid5(" \o data \o ")"

generate_sco_id(object_type, data) == object_type \o "--" \o Uuid5(data)

\* u32::to_string
RECURSIVE to_string(_)
to_string(n) == IF n < 10 THEN Digit(n) ELSE to_string(n \div 10) \o Digit(n % 10)

\* Option<String>::as_deref().unwrap_or(d)
unwrap_or(opt, d) == IF opt = JNull THEN d ELSE opt.s

\* variant of FileIdentity: MD5 is preferred to SHA-256
FileIdentityMd5First(o) ==
    IF o.named["hashes"] # JNull /\ "MD5" \in DOMAIN o.named["hashes"].m
    THEN o.named["hashes"].m["MD5"].s
    ELSE IF o.named["hashes"] # JNull /\ "SHA-256" \in DOMAIN o.named["hashes"].m
         THEN o.named["hashes"].m["SHA-256"].s
         ELSE unwrap_or(o.named["name"], "unknown")

\* the File arm of id(): hashes.get("SHA-256").or(hashes.get("MD5")), else the name
FileIdentity(o) ==
    IF o.named["hashes"] # JNull /\ "SHA-256" \in DOMAIN o.named["hashes"].m
    THEN o.named["hashes"].m["SHA-256"].s
    ELSE IF o.named["hashes"] # JNull /\ "MD5" \in DOMAIN o.named["hashes"].m
         THEN o.named["hashes"].m["MD5"].s
         ELSE unwrap_or(o.named["name"], "unknown")

\* variant of IdentityData: a Process is identified by its name
IdentityDataProcessName(o) ==
    CASE o.variant = "File" -> FileIdentity(o)
      [] o.variant \in {"DomainName", "IPv4Addr", "Url", "IPv6Addr", "MacAddr", "EmailAddr"} ->
            o.named["value"].s
      [] o.variant \in {"Software", "Mutex", "Process"} -> unwrap_or(o.named["name"], "unknown")
      [] o.variant = "UserAccount" -> unwrap_or(o.named["user_id"], "unknown")
      [] o.variant = "AutonomousSystem" ->
            IF o.named["number"] = JNull THEN "unknown" ELSE to_string(o.named["number"].n)
      [] o.variant = "Directory" -> unwrap_or(o.named["path"], "unknown")
      [] o.variant = "WindowsRegistryKey" -> unwrap_or(o.named["key"], "unknown")
      [] OTHER -> "unknown"

\* the data each observable arm of id() passes to generate_sco_id
IdentityData(o) ==
    CASE o.variant = "File" -> FileIdentity(o)
      [] o.variant \in {"DomainName", "IPv4Addr", "Url", "IPv6Addr", "MacAddr", "EmailAddr"} ->
            o.named["value"].s
      [] o.variant \in {"Software", "Mutex"} -> unwrap_or(o.named["name"], "unknown")
      [] o.variant = "UserAccount" -> unwrap_or(o.named["user_id"], "unknown")
      [] o.variant = "AutonomousSystem" ->
            IF o.named["number"] = JNull THEN "unknown" ELSE to_string(o.named["number"].n)
      [] o.variant = "Directory" -> unwrap_or(o.named["path"], "unknown")
      [] o.variant = "WindowsRegistryKey" -> unwrap_or(o.named["key"], "unknown")
      [] o.variant \in {"NetworkTraffic", "Process", "Artifact", "EmailMessage", "SocketAddr",
                        "SoftwarePackage", "X509Certificate"} -> "unknown"

\* variant of Id: an observable that kept an id member of the wire reports it
Id_preferring_wire(o) ==
    IF "id" \in DOMAIN o.custom /\ o.custom["id"].j = "str"
    THEN o.custom["id"].s
    ELSE IF o.variant \in Observables
         THEN generate_sco_id(VariantTag(o.variant), IdentityData(o))
         ELSE IF o.variant = "Custom" THEN "unknown" ELSE o.named["id"].s

\* StixObjectEnum::id
Id(o) ==
    IF o.variant \in Observables
    THEN generate_sco_id(VariantTag(o.variant), IdentityData(o))
    ELSE IF o.variant = "Custom"
         THEN IF "id" \in DOMAIN o.custom /\ o.custom["id"].j = "str"
              THEN o.custom["id"].s
              ELSE "unknown"
         ELSE o.named["id"].s

\* variant of new_version: the creation time is refreshed as well
new_version_touching_created(o, clock) ==
    [o EXCEPT !.named = [k \in DOMAIN o.named |->
                            IF k \in {"created", "modified"} THEN RTime(clock) ELSE o.named[k]]]

\* CommonProperties::new_version on the common properties of a domain object
new_version(o, clock) ==
    [o EXCEPT !.named = [k \in DOMAIN o.named |->
                            IF k = "modified" THEN RTime(clock) ELSE o.named[k]]]

\* Option<&StixObjectEnum>: None, or a reference to the element at a position
None == [some |-> FALSE, at |-> 0]

Some(i) == [some |-> TRUE, at |-> i]

\* variant of Bundle_get: the last object with the id is returned
Bundle_get_last(bundle, id) ==
    LET hits == {i \in DOMAIN bundle.objects : Id(bundle.objects[i]) = id}
    IN IF hits = {} THEN None ELSE Some(CHOOSE i \in hits : \A q \in hits : i >= q)

\* Bundle::get: self.objects.iter().find(|obj| obj.id() == id)
Bundle_get(bundle, id) ==
    LET hits == {i \in DOMAIN bundle.objects : Id(bundle.objects[i]) = id}
    IN IF hits = {} THEN None ELSE Some(CHOOSE i \in hits : \A q \in hits : i <= q)

\* StixObjectEnum::created: seven arms read common.created, the Custom arm
\* parses the created member of the kept value, every other arm reads the clock
created(o, clock) ==
    IF o.variant \in {"Indicator", "Malware", "ThreatActor", "Identity", "IntrusionSet",
                      "Campaign", "Relationship"}
    THEN o.named["created"]
    ELSE IF o.variant = "Custom" /\ "created" \in DOMAIN o.custom
            /\ o.custom["created"].j = "str" /\ IsRfc3339(o.custom["created"].s)
         THEN RTime(ParseTime(o.custom["created"].s))
         ELSE RTime(clock)

\* StixObjectEnum::type_
type_(o) ==
    IF o.variant \in Observables
    THEN VariantTag(o.variant)
    ELSE IF o.variant = "Custom"
         THEN IF "type" \in DOMAIN o.custom /\ o.custom["type"].j = "str"
              THEN o.custom["type"].s
              ELSE "unknown"
         ELSE o.named["type"].s

(***************************************************************************)
(* pattern.rs: the pattern validator.  Texts are strings of ASCII          *)
(* characters; positions are 1-based (Rust's byte offset plus one).        *)
(***************************************************************************)
VALID_OBJECT_TYPES ==
    {"artifact", "autonomous-system", "directory", "domain-name", "email-addr",
     "email-message", "file", "ipv4-addr", "ipv6-addr", "mac-addr", "mutex",
     "network-traffic", "process", "software", "url", "user-account",
     "windows-registry-key", "x509-certificate"}

VALID_OPERATORS ==
    <<"=", "!=", ">", ">=", "<", "<=", "IN", "MATCHES", "LIKE", "ISSUBSET", "ISSUPERSET">>

VALID_COMBINERS == <<"AND", "OR", "FOLLOWEDBY">>

\* str::starts_with / ends_with for a one-character pattern
starts_with(s, c) == Len(s) >= 1 /\ SubSeq(s, 1, 1) = c

ends_with(s, c) == Len(s) >= 1 /\ SubSeq(s, Len(s), Len(s)) = c

\* str::trim (the texts hold no white space other than the space)
RECURSIVE trim(_)
trim(s) ==
    IF starts_with(s, " ") THEN trim(SubSeq(s, 2, Len(s)))
    ELSE IF ends_with(s, " ") THEN trim(SubSeq(s, 1, Len(s) - 1))
    ELSE s

\* str::find: the position of the first occurrence, 0 for None
find(s, sub) ==
    LET hits == {i \in 1..(Len(s) - Len(sub) + 1) : SubSeq(s, i, i + Len(sub) - 1) = sub}
    IN IF hits = {} THEN 0 ELSE CHOOSE i \in hits : \A q \in hits : i <= q

contains(s, sub) == find(s, sub) # 0

\* chars().filter(|c| *c == ch).count()
count(s, ch) == Cardinality({i \in 1..Len(s) : SubSeq(s, i, i) = ch})

is_inside_quotes(s, pos) ==
    LET before == SubSeq(s, 1, pos - 1)
    IN count(before, "'") % 2 # 0 \/ count(before, "\"") % 2 # 0

\* outcomes of a validation: Ok(()), Err(PatternError), or no return at all
PatOk == [r |-> "ok"]

PatErr(e) == [r |-> "err", e |-> e, arg |-> ""]

InvalidObjectType(t) == [r |-> "err", e |-> "InvalidObjectType", arg |-> t]

\* a slice whose start lies behind its end: the thread panics
SlicePanic == [r |-> "panic"]

\* recursion deeper than the stack: the process is aborted
StackOverflow == [r |-> "overflow"]

\* one turn of the loop over VALID_COMBINERS in split_by_combiners
split_step(pattern, acc, combiner) ==
    LET pos == find(pattern, combiner)
    IN IF acc.panic \/ pos = 0 \/ is_inside_quotes(pattern, pos)
       THEN acc
       ELSE IF acc.last_pos > pos
            THEN [acc EXCEPT !.panic = TRUE]
            ELSE [panic |-> FALSE,
                  parts |-> Append(acc.parts, SubSeq(pattern, acc.last_pos, pos - 1)),
                  last_pos |-> pos + Len(combiner)]

split_by_combiners(pattern) ==
    LET start == [panic |-> FALSE, parts |-> <<>>, last_pos |-> 1]
        a1 == split_step(pattern, start, VALID_COMBINERS[1])
        a2 == split_step(pattern, a1, VALID_COMBINERS[2])
        a3 == split_step(pattern, a2, VALID_COMBINERS[3])
    IN IF a3.panic THEN a3
       ELSE IF a3.parts = <<>>
            THEN [a3 EXCEPT !.parts = <<pattern>>]
            ELSE [a3 EXCEPT !.parts = Append(a3.parts, SubSeq(pattern, a3.last_pos, Len(pattern)))]

\* variant of comparison_checks: the object type is compared with its padding
comparison_checks_untrimmed(expr) ==
    LET colon_pos == find(expr, ":")
        object_type == SubSeq(expr, 1, colon_pos - 1)
        rest == SubSeq(expr, colon_pos + 1, Len(expr))
    IN IF colon_pos = 0 THEN PatErr("MissingColon")
       ELSE IF object_type \notin VALID_OBJECT_TYPES THEN InvalidObjectType(object_type)
       ELSE IF \A i \in DOMAIN VALID_OPERATORS : ~contains(rest, VALID_OPERATORS[i])
            THEN PatErr("MissingOperator")
            ELSE PatOk

\* the part of validate_single_comparison after the bracket test
comparison_checks(expr) ==
    LET colon_pos == find(expr, ":")
        object_type == trim(SubSeq(expr, 1, colon_pos - 1))
        rest == SubSeq(expr, colon_pos + 1, Len(expr))
    IN IF colon_pos = 0 THEN PatErr("MissingColon")
       ELSE IF object_type \notin VALID_OBJECT_TYPES THEN InvalidObjectType(object_type)
       ELSE IF \A i \in DOMAIN VALID_OPERATORS : ~contains(rest, VALID_OPERATORS[i])
            THEN PatErr("MissingOperator")
            ELSE PatOk

RECURSIVE validate_pattern_at(_, _)
RECURSIVE validate_single_comparison_at(_, _)
RECURSIVE validate_parts(_, _, _)

\* validate_single_comparison called with depth frames of validate_pattern below it
validate_single_comparison_at(expr, depth) ==
    IF starts_with(expr, "[") /\ ends_with(expr, "]")
    THEN validate_pattern_at("[" \o expr \o "]", depth + 1)
    ELSE comparison_checks(expr)

\* the loop over the parts with its early return
validate_parts(ps, i, depth) ==
    IF i > Len(ps)
    THEN PatOk
    ELSE LET r == validate_single_comparison_at(trim(ps[i]), depth)
         IN IF r = PatOk THEN validate_parts(ps, i + 1, depth) ELSE r

\* variant of validate_pattern_at: the brackets are counted before the ends
\* of the text are looked at
validate_pattern_counting_first(pattern, depth) ==
    LET trimmed == trim(pattern)
        inner == trim(SubSeq(trimmed, 2, Len(trimmed) - 1))
        split == split_by_combiners(inner)
    IN IF depth > MaxStack THEN StackOverflow
       ELSE IF count(trimmed, "[") # count(trimmed, "]") THEN PatErr("UnbalancedBrackets")
       ELSE IF ~starts_with(trimmed, "[") \/ ~ends_with(trimmed, "]")
            THEN PatErr("MissingBrackets")
       ELSE IF inner = "" THEN PatErr("EmptyPattern")
       ELSE IF split.panic THEN SlicePanic
       ELSE validate_parts(split.parts, 1, depth)

validate_pattern_at(pattern, depth) ==
    LET trimmed == trim(pattern)
        inner == trim(SubSeq(trimmed, 2, Len(trimmed) - 1))
        split == split_by_combiners(inner)
    IN IF depth > MaxStack THEN StackOverflow
       ELSE IF ~starts_with(trimmed, "[") \/ ~ends_with(trimmed, "]")
            THEN PatErr("MissingBrackets")
       ELSE IF count(trimmed, "[") # count(trimmed, "]") THEN PatErr("UnbalancedBrackets")
       ELSE IF inner = "" THEN PatErr("EmptyPattern")
       ELSE IF split.panic THEN SlicePanic
       ELSE validate_parts(split.parts, 1, depth)

validate_pattern(pattern) == validate_pattern_at(pattern, 0)

(***************************************************************************)
(* pattern.rs: PatternBuilder.  ps is the builder's parts vector.          *)
(***************************************************************************)
PatternBuilder_new == <<>>

PatternBuilder_compare(ps, object_type, property, operator, value) ==
    Append(ps, object_type \o ":" \o property \o " " \o operator \o " " \o value)

\* variant of PatternBuilder_and: the combiner is appended to an empty builder too
PatternBuilder_and_unguarded(ps) == Append(ps, " AND ")

PatternBuilder_and(ps) == IF ps # <<>> THEN Append(ps, " AND ") ELSE ps

PatternBuilder_or(ps) == IF ps # <<>> THEN Append(ps, " OR ") ELSE ps

\* Vec<String>::join("")
RECURSIVE join(_)
join(ps) == IF ps = <<>> THEN "" ELSE Head(ps) \o join(Tail(ps))

PatternBuilder_build(ps) == "[" \o join(ps) \o "]"

(***************************************************************************)
(* objects.rs: IndicatorBuilder::build.  b holds the builder's Option      *)
(* fields (JNull when unset) and its validate_pattern flag.                *)
(***************************************************************************)
\* a call that does not return: the panic or abort of validate_pattern passes
\* through build
NoReturn(v) == [ok |-> FALSE, src |-> v.r]

\* variant of IndicatorBuilder_build: the pattern is validated whatever its type
IndicatorBuilder_build_validating_any(b, uuid, clock) ==
    IF b.pattern = JNull THEN BuilderError("pattern")
    ELSE IF b.pattern_type = JNull THEN BuilderError("pattern_type")
    ELSE IF b.valid_from = JNull THEN BuilderError("valid_from")
    ELSE IF b.validate_pattern
            /\ validate_pattern(b.pattern.s) # PatOk
         THEN IF validate_pattern(b.pattern.s).r = "err"
              THEN BuilderError("invalid pattern")
              ELSE NoReturn(validate_pattern(b.pattern.s))
         ELSE Ok([variant |-> "Indicator",
                  named |-> [k \in NamedKeys("Indicator") |->
                               IF k \in Keys(Indicator)
                               THEN b[k]
                               ELSE CommonProperties_new("indicator", b.created_by_ref,
                                                         uuid, clock)[k]],
                  custom |-> EmptyMap])

IndicatorBuilder_build(b, uuid, clock) ==
    IF b.pattern = JNull THEN BuilderError("pattern")
    ELSE IF b.pattern_type = JNull THEN BuilderError("pattern_type")
    ELSE IF b.valid_from = JNull THEN BuilderError("valid_from")
    ELSE IF b.validate_pattern /\ b.pattern_type = JStr("stix")
            /\ validate_pattern(b.pattern.s) # PatOk
         THEN IF validate_pattern(b.pattern.s).r = "err"
              THEN BuilderError("invalid pattern")
              ELSE NoReturn(validate_pattern(b.pattern.s))
         ELSE Ok([variant |-> "Indicator",
                  named |-> [k \in NamedKeys("Indicator") |->
                               IF k \in Keys(Indicator)
                               THEN b[k]
                               ELSE CommonProperties_new("indicator", b.created_by_ref,
                                                         uuid, clock)[k]],
                  custom |-> EmptyMap])

\* Indicator::validate_pattern on a built or decoded Indicator
Indicator_validate_pattern(ind) ==
    IF ind.named["pattern_type"] = JStr("stix")
    THEN validate_pattern(ind.named["pattern"].s)
    ELSE PatOk

(***************************************************************************)
(* Inputs: for every variant the smallest wire object its structure        *)
(* accepts, a vendor-extension object, and up to MaxEdits member edits of  *)
(* these; values that are not objects.                                     *)
(***************************************************************************)
Nil == [nil |-> TRUE]

\* no identifier asked for yet
NoId == ""

\* no text built yet
NotBuilt == ""

Variants == {MatchArms[i].variant : i \in DOMAIN MatchArms} \ {"Custom"}

WireType(variant) == (CHOOSE i \in DOMAIN MatchArms : MatchArms[i].variant = variant)

Sample(variant, f) ==
    CASE f.key = "type" -> JStr(MatchArms[WireType(variant)].pat)
      [] f.key = "id" -> JStr(generate_stix_id(MatchArms[WireType(variant)].pat, "u1"))
      [] f.ty = "time" -> JStr(FormatTime(1))
      [] f.ty \in {"u8", "u16", "u32", "u64", "f64"} -> JNum(1)
      [] f.ty = "bool" -> JBool(TRUE)
      [] f.ty = "strmap" -> JObj("k" :> JStr("v"))
      [] f.ty = "strs" -> JArr(<<JStr("a")>>)
      [] f.ty = "value" -> JObj("tlp" :> JStr("white"))
      [] f.ty = "strmapmap" -> JObj(EmptyMap)
      [] OTHER -> JStr("a")

Template(variant) ==
    LET fields == AllFields(variant)
        req == {fields[i].key : i \in {q \in DOMAIN fields : fields[q].mode = "req"}}
    IN JObj([k \in req \cup {"type"} |->
                IF k \in req
                THEN Sample(variant, FieldOf(fields, k))
                ELSE JStr(MatchArms[WireType(variant)].pat)])

CustomTemplate ==
    JObj(("type" :> JStr("x-acme-widget")) @@ ("id" :> JStr("x-acme-widget--u1"))
         @@ ("color" :> JStr("red")))

Templates == {Template(v) : v \in Variants} \cup {CustomTemplate}

Set(k, v) == [op |-> "set", key |-> k, val |-> v]

Del(k) == [op |-> "del", key |-> k, val |-> JNull]

Edits ==
    {Set("type", JStr(t)) : t \in {"foobar", "Malware", "filex", "x-acme-widget", "x-",
                                    "X-acme", "x", "bundle"}}
    \cup {Set("type", JNum(5)), Set("type", JNull)}
    \cup {Set("id", JStr("file--u2")), Set("id", JNum(7))}
    \cup {Set("name", JStr("unknown")), Set("name", JNull), Set("name", JNum(3))}
    \cup {Set("created", JStr(FractionalTime(2))), Set("created", JStr("yesterday"))}
    \cup {Set("valid_from", JStr(FormatTime(2))), Set("valid-from", JStr(FormatTime(2)))}
    \cup {Set("pattern_type", JStr("pcre")), Set("pattern-type", JStr("pcre"))}
    \cup {Set("x_custom", JStr("us-east-1")), Set("x_custom", JObj("k" :> JNum(1)))}
    \cup {Set("hashes", JObj("SHA-256" :> JStr("aa")))}
    \cup {Set("extensions", JNull), Set("extensions", JObj(EmptyMap))}
    \cup {Del(k) : k \in {"type", "id", "name", "created", "value", "pattern"}}

ApplyEdit(v, e) ==
    IF e.op = "set" THEN JObj(Put(v.m, e.key, e.val)) ELSE JObj(Without(v.m, {e.key}))

RECURSIVE Edited(_)
Edited(n) ==
    IF n = 0
    THEN Templates
    ELSE LET prev == Edited(n - 1) IN prev \cup {ApplyEdit(v, e) : v \in prev, e \in Edits}

NonObjects == {JStr("file"), JArr(<<>>), JNull}

Inputs == Edited(MaxEdits) \cup NonObjects

FileBuilders ==
    [hashes : {JNull, JObj("SHA-256" :> JStr("aa")), JObj("MD5" :> JStr("bb"))},
     name : {JNull, JStr("a")},
     size : {JNull, JNum(7)},
     mime_type : {JNull}, parent_directory_ref : {JNull}, content_ref : {JNull},
     custom_properties : {EmptyMap, "x_custom" :> JStr("us-east-1"), "name" :> JStr("b")}]

IdentityBuilders ==
    [name : {JNull, JStr("ACME")},
     identity_class : {JNull, JStr("system")},
     sectors : {JNull},
     created_by_ref : {JNull, JStr("identity--u9")},
     custom_properties : {EmptyMap, "x_custom" :> JStr("us-east-1")}]

Uuids == {"u1", "u2"}

\* elements a bundle on the wire may carry: decodable ones and the three failures
BundleElems ==
    {Template("Malware"), Template("File"), CustomTemplate, Template("Indicator"),
     ApplyEdit(Template("Malware"), Set("description", JStr("b"))),
     ApplyEdit(Template("Malware"), Set("type", JStr("foobar"))),
     ApplyEdit(Template("Malware"), Del("type")),
     ApplyEdit(Template("Identity"), Del("name"))}

BundleInputs ==
    {JObj(("type" :> JStr("bundle")) @@ ("id" :> JStr("bundle--u1")) @@ ("objects" :> JArr(a))) :
        a \in UNION {[1..n -> BundleElems] : n \in 0..MaxBundleLen}}
    \cup {JObj(("type" :> JStr("bundle")) @@ ("id" :> JStr("bundle--u1"))),
          JObj(("type" :> JStr("bundle")) @@ ("id" :> JStr("bundle--u1"))
               @@ ("objects" :> JStr("none")))}

\* clauses a pattern text is composed of, each with how it was written: its
\* text, whether it has a colon, the object type before the colon without its
\* padding, whether an operator follows, whether it is bracketed
Clause(text, colon, type, operator, bracketed) ==
    [text |-> text, colon |-> colon, type |-> type, operator |-> operator,
     bracketed |-> bracketed]

Clauses ==
    {Clause("file:name = 'x'", TRUE, "file", TRUE, FALSE),
     Clause("bogus:name = 'x'", TRUE, "bogus", TRUE, FALSE),
     Clause("url :value IN (1)", TRUE, "url", TRUE, FALSE),
     Clause("file-name = 'x'", FALSE, "", TRUE, FALSE),
     Clause("file:name 'x'", TRUE, "file", FALSE, FALSE),
     Clause(":name = 1", TRUE, "", TRUE, FALSE),
     Clause("file:name = 'a AND b'", TRUE, "file", TRUE, FALSE),
     Clause("[file:name = 'x']", TRUE, "file", TRUE, TRUE)}

Combiners == {" AND ", " OR ", " FOLLOWEDBY "}

RECURSIVE Join(_, _, _)
Join(cs, ks, i) ==
    IF i > Len(cs) THEN ""
    ELSE IF i = Len(cs) THEN cs[i].text
    ELSE cs[i].text \o ks[i] \o Join(cs, ks, i + 1)

\* a bracketed text of clauses joined by combiners
Composed ==
    UNION {{[text |-> "[" \o Join(cs, ks, 1) \o "]", wrap |-> "composed", clauses |-> cs,
             combiners |-> ks] :
               cs \in [1..n -> Clauses], ks \in [1..(n - 1) -> Combiners]} :
           n \in 1..MaxClauses}

Bodies == {"", "  ", "file:name = 'x'", "file:name = '['", "bogus"}

Wrap(w, body) ==
    CASE w = "none" -> body
      [] w = "open" -> "[" \o body
      [] w = "close" -> body \o "]"
      [] w = "padded" -> "  [" \o body \o "] "
      [] w = "spaced" -> "[ " \o body \o " ]"
      [] w = "open twice" -> "[[" \o body \o "]"
      [] w = "close twice" -> "[" \o body \o "]]"
      [] w = "[]" -> "[" \o body \o "]"

\* texts whose brackets are missing, unbalanced or hold nothing
Wrapped ==
    {[text |-> Wrap(w, b), wrap |-> w, clauses |-> <<>>, combiners |-> <<>>] :
        w \in {"none", "open", "close", "padded", "spaced", "open twice", "close twice", "[]"},
        b \in Bodies}

PatternInputs == Composed \cup Wrapped

\* arguments of compare calls: two comparisons of the vocabulary, one outside it
CompareArgs ==
    {<<"file", "name", "=", "'a'">>, <<"url", "value", "IN", "(1)">>,
     <<"bogus", "x", "~", "y">>}

\* builders with their setters applied: patterns the validator accepts,
\* refuses, panics on and never returns from
IndicatorBuilders ==
    [name : {JNull, JStr("a")},
     description : {JNull}, indicator_types : {JNull},
     pattern : {JNull} \cup {JStr(p) : p \in {"[file:name = 'x']", "file:name = 'x'",
                                               "[bogus:name = 'x']",
                                               "[url:value IN (1) OR url:value IN (1) AND url:value IN (1)]",
                                               "[[file:name = 'x']]",
                                               "^malware.*\\.exe$"}},
     pattern_type : {JNull} \cup {JStr(t) : t \in IndicatorPatternType},
     pattern_version : {JNull},
     valid_from : {JNull, RTime(1)},
     valid_until : {JNull}, kill_chain_phases : {JNull},
     created_by_ref : {JNull},
     validate_pattern : BOOLEAN]

MalwareBuilders ==
    [name : {JNull, JStr("BadWare")},
     description : {JNull},
     malware_types : {JNull, JArr(<<JStr("ransomware")>>)},
     is_family : {JNull, JBool(TRUE)},
     aliases : {JNull}, kill_chain_phases : {JNull},
     first_seen : {JNull}, last_seen : {JNull},
     operating_system_refs : {JNull}, architecture_execution_envs : {JNull},
     implementation_languages : {JNull}, capabilities : {JNull}, sample_refs : {JNull},
     created_by_ref : {JNull}]

SightingBuilders ==
    [count : {JNull, JNum(2)},
     sighting_of_ref : {JNull, JStr("malware--1111")},
     where_sighted_refs : {JNull, JArr(<<JStr("sensor--1")>>)},
     created_by_ref : {JNull}]

\* a builder of one of the three kinds with its setters applied
RequiredBuilders ==
    {[kind |-> "Malware", b |-> x] : x \in MalwareBuilders}
    \cup {[kind |-> "Sighting", b |-> x] : x \in SightingBuilders}
    \cup {[kind |-> "Identity", b |-> x] : x \in IdentityBuilders}

\* the field each observable arm of id() reads ("" where it reads none)
DesignatedField(variant) ==
    CASE variant \in {"DomainName", "IPv4Addr", "Url", "IPv6Addr", "MacAddr", "EmailAddr"} -> "value"
      [] variant \in {"Software", "Mutex"} -> "name"
      [] variant = "UserAccount" -> "user_id"
      [] variant = "AutonomousSystem" -> "number"
      [] variant = "Directory" -> "path"
      [] variant = "WindowsRegistryKey" -> "key"
      [] OTHER -> ""

HashSets ==
    {EmptyMap, "SHA-256" :> JStr("aa"), "MD5" :> JStr("aa"), "SHA-1" :> JStr("aa"),
     ("SHA-256" :> JStr("aa")) @@ ("MD5" :> JStr("bb")),
     ("SHA-256" :> JStr("bb")) @@ ("MD5" :> JStr("aa"))}

\* wire forms of one observable kind: the identity field absent or set, the
\* other named fields absent or set, with and without a custom property or an
\* id member
ObsWires(variant) ==
    LET fields == StructOf(variant)
        d == DesignatedField(variant)
        idKeys == IF variant = "File" THEN {"hashes", "name"} ELSE {d}
        rest == Keys(fields) \ idKeys
        restMaps == {EmptyMap, [k \in rest |-> Sample(variant, FieldOf(fields, k))]}
        custMaps == {EmptyMap, "x_custom" :> JStr("us-east-1")}
                    \cup {"id" :> JStr(generate_stix_id(VariantTag(variant), u)) : u \in Uuids}
        idVals == IF variant = "AutonomousSystem"
                  THEN {JNum(1), JNum(2), JNum(12)}
                  ELSE {JStr("unknown"), JStr("a"), JStr("b")}
        idMaps == IF variant = "File"
                  THEN {h @@ n : h \in {EmptyMap} \cup {"hashes" :> JObj(x) : x \in HashSets},
                                 n \in {EmptyMap, "name" :> JStr("aa"), "name" :> JStr("unknown")}}
                  ELSE IF d = ""
                       THEN {EmptyMap}
                       ELSE {EmptyMap} \cup {d :> v : v \in idVals}
    IN {JObj(("type" :> JStr(VariantTag(variant))) @@ i @@ r @@ c) :
           i \in idMaps, r \in restMaps, c \in custMaps}

\* the observable objects a caller can hold: decoded from the wire or built
ObsObjects(variant, clock) ==
    {Deserialize(w, clock).obj : w \in {x \in ObsWires(variant) : Deserialize(x, clock).ok}}
    \cup (IF variant = "File" THEN {FileBuilder_build(b) : b \in FileBuilders} ELSE {})

(***************************************************************************)
(* The dispatcher as a state machine: a caller receives a wire value or    *)
(* builds an object, decodes, decodes again, encodes what it holds and     *)
(* decodes the text it wrote, while the clock advances.                    *)
(***************************************************************************)
Init ==
    /\ now = 5
    /\ wire = Nil /\ res = Nil /\ resAt = Nil /\ res2 = Nil
    /\ enc = Nil /\ redec = Nil /\ held = Nil
    /\ bundleWire = Nil /\ bundleRes = Nil
    /\ objA = Nil /\ objB = Nil /\ idA = NoId /\ idB = NoId /\ idA2 = NoId
    /\ patInput = Nil /\ verdict = Nil /\ parts = PatternBuilder_new /\ calls = <<>> /\ rendered = NotBuilt
    /\ orig = Nil /\ versions = 0 /\ indBuilder = Nil /\ indRes = Nil
    /\ indCheck = Nil /\ reqBuilder = Nil /\ reqRes = Nil /\ createdRes = Nil /\ getRes = Nil

Tick ==
    /\ now < 5 + MaxClock
    /\ now' = now + 1
    /\ UNCHANGED <<wire, res, resAt, res2, enc, redec, held,
                   bundleWire, bundleRes, objA, objB, idA, idB, idA2,
                   patternVars, buildVars, queryVars>>

Receive ==
    /\ wire = Nil /\ held = Nil
    /\ wire' \in Inputs
    /\ UNCHANGED <<now, res, resAt, res2, enc, redec, held,
                   bundleWire, bundleRes, objA, objB, idA, idB, idA2,
                   patternVars, buildVars, queryVars>>

BuildFile ==
    /\ wire = Nil /\ held = Nil
    /\ \E b \in FileBuilders : held' = FileBuilder_build(b)
    /\ UNCHANGED <<now, wire, res, resAt, res2, enc, redec,
                   bundleWire, bundleRes, objA, objB, idA, idB, idA2,
                   patternVars, buildVars, queryVars>>

BuildIdentity ==
    /\ wire = Nil /\ held = Nil
    /\ \E b \in IdentityBuilders, u \in Uuids :
          /\ IdentityBuilder_build(b, u, now).ok
          /\ held' = IdentityBuilder_build(b, u, now).obj
    /\ UNCHANGED <<now, wire, res, resAt, res2, enc, redec,
                   bundleWire, bundleRes, objA, objB, idA, idB, idA2,
                   patternVars, buildVars, queryVars>>

Decode ==
    /\ wire # Nil /\ res = Nil
    /\ res' = Deserialize(wire, now)
    /\ resAt' = now
    /\ held' = IF res'.ok THEN res'.obj ELSE held
    /\ UNCHANGED <<now, wire, res2, enc, redec,
                   bundleWire, bundleRes, objA, objB, idA, idB, idA2,
                   patternVars, buildVars, queryVars>>

DecodeAgain ==
    /\ res # Nil /\ res2 = Nil
    /\ res2' = Deserialize(wire, now)
    /\ UNCHANGED <<now, wire, res, resAt, enc, redec, held,
                   bundleWire, bundleRes, objA, objB, idA, idB, idA2,
                   patternVars, buildVars, queryVars>>

Encode ==
    /\ held # Nil /\ enc = Nil
    /\ \E order \in EncodeOrders(held) : enc' = Serialize(held, order)
    /\ UNCHANGED <<now, wire, res, resAt, res2, redec, held,
                   bundleWire, bundleRes, objA, objB, idA, idB, idA2,
                   patternVars, buildVars, queryVars>>

Redecode ==
    /\ enc # Nil /\ redec = Nil
    /\ redec' = Deserialize(ParseObject(enc), now)
    /\ UNCHANGED <<now, wire, res, resAt, res2, enc, held,
                   bundleWire, bundleRes, objA, objB, idA, idB, idA2,
                   patternVars, buildVars, queryVars>>

Next ==
    \/ Tick
    \/ Receive
    \/ BuildFile
    \/ BuildIdentity
    \/ Decode
    \/ DecodeAgain
    \/ Encode
    \/ Redecode

Spec == Init /\ [][Next]_vars

(***************************************************************************)
(* Bundle decoding: a bundle arrives and is decoded once.                  *)
(***************************************************************************)
ReceiveBundle ==
    /\ bundleWire = Nil
    /\ bundleWire' \in BundleInputs
    /\ UNCHANGED <<now, wire, res, resAt, res2, enc, redec, held,
                   bundleRes, objA, objB, idA, idB, idA2,
                   patternVars, buildVars, queryVars>>

DecodeBundle ==
    /\ bundleWire # Nil /\ bundleRes = Nil
    /\ bundleRes' = Bundle_deserialize(bundleWire, now)
    /\ resAt' = now
    /\ UNCHANGED <<now, wire, res, res2, enc, redec, held,
                   bundleWire, objA, objB, idA, idB, idA2,
                   patternVars, buildVars, queryVars>>

\* the identifiers a caller asks for: those of the bundle's objects and one of none
GetArgs(bundle) ==
    {Id(bundle.objects[i]) : i \in DOMAIN bundle.objects} \cup {"nonexistent--id"}

CallGet ==
    /\ bundleRes # Nil /\ bundleRes.ok /\ getRes = Nil
    /\ \E id \in GetArgs(bundleRes.obj) :
          getRes' = [arg |-> id, before |-> bundleRes.obj,
                     found |-> Bundle_get(bundleRes.obj, id)]
    /\ UNCHANGED <<now, wire, res, resAt, res2, enc, redec, held,
                   bundleWire, bundleRes, objA, objB, idA, idB, idA2,
                   patternVars, buildVars, indCheck, reqBuilder, reqRes, createdRes>>

NextBundle ==
    \/ Tick
    \/ ReceiveBundle
    \/ DecodeBundle
    \/ CallGet

SpecBundle == Init /\ [][NextBundle]_vars

(***************************************************************************)
(* Identifiers: a caller holds two observables of one kind and asks each   *)
(* for its id, the first one twice.                                        *)
(***************************************************************************)
PickPair ==
    /\ objA = Nil
    /\ \E variant \in Observables :
          \E a \in ObsObjects(variant, now), b \in ObsObjects(variant, now) :
             objA' = a /\ objB' = b
    /\ UNCHANGED <<now, wire, res, resAt, res2, enc, redec, held,
                   bundleWire, bundleRes, idA, idB, idA2,
                   patternVars, buildVars, queryVars>>

CallIdA ==
    /\ objA # Nil /\ idA = NoId
    /\ idA' = Id(objA)
    /\ UNCHANGED <<now, wire, res, resAt, res2, enc, redec, held,
                   bundleWire, bundleRes, objA, objB, idB, idA2,
                   patternVars, buildVars, queryVars>>

CallIdB ==
    /\ objB # Nil /\ idB = NoId
    /\ idB' = Id(objB)
    /\ UNCHANGED <<now, wire, res, resAt, res2, enc, redec, held,
                   bundleWire, bundleRes, objA, objB, idA, idA2,
                   patternVars, buildVars, queryVars>>

CallIdAgain ==
    /\ idA # NoId /\ idA2 = NoId
    /\ idA2' = Id(objA)
    /\ UNCHANGED <<now, wire, res, resAt, res2, enc, redec, held,
                   bundleWire, bundleRes, objA, objB, idA, idB,
                   patternVars, buildVars, queryVars>>

NextId ==
    \/ PickPair
    \/ CallIdA
    \/ CallIdB
    \/ CallIdAgain

SpecId == Init /\ [][NextId]_vars

(***************************************************************************)
(* Versioning: a caller holds a domain or relationship object, decoded or  *)
(* built, and calls new_version on its common properties some times.       *)
(***************************************************************************)
NewVersion ==
    /\ held # Nil /\ HasCommon(held.variant) /\ held.variant # "Custom"
    /\ versions < MaxVersions
    /\ orig' = IF versions = 0 THEN held ELSE orig
    /\ held' = new_version(held, now)
    /\ versions' = versions + 1
    /\ UNCHANGED <<now, wire, res, resAt, res2, enc, redec,
                   bundleWire, bundleRes, objA, objB, idA, idB, idA2,
                   patternVars, indBuilder, indRes, queryVars>>

NextVersion ==
    \/ Tick
    \/ Receive
    \/ Decode
    \/ BuildIdentity
    \/ NewVersion

SpecVersion == Init /\ [][NextVersion]_vars

(***************************************************************************)
(* Pattern validation: a pattern text arrives and is validated once.       *)
(***************************************************************************)
ReceivePattern ==
    /\ patInput = Nil
    /\ patInput' \in PatternInputs
    /\ UNCHANGED <<now, wire, res, resAt, res2, enc, redec, held,
                   bundleWire, bundleRes, objA, objB, idA, idB, idA2,
                   verdict, parts, calls, rendered, buildVars, queryVars>>

Validate ==
    /\ patInput # Nil /\ verdict = Nil
    /\ verdict' = validate_pattern(patInput.text)
    /\ UNCHANGED <<now, wire, res, resAt, res2, enc, redec, held,
                   bundleWire, bundleRes, objA, objB, idA, idB, idA2,
                   patInput, parts, calls, rendered, buildVars, queryVars>>

NextPattern ==
    \/ ReceivePattern
    \/ Validate

SpecPattern == Init /\ [][NextPattern]_vars

(***************************************************************************)
(* PatternBuilder: a caller makes calls on a new builder, builds the text  *)
(* and has it validated.                                                   *)
(***************************************************************************)
CallCompare ==
    /\ rendered = NotBuilt /\ Len(calls) < MaxCalls
    /\ \E a \in CompareArgs :
          /\ parts' = PatternBuilder_compare(parts, a[1], a[2], a[3], a[4])
          /\ calls' = Append(calls, [op |-> "compare", args |-> a])
    /\ UNCHANGED <<now, wire, res, resAt, res2, enc, redec, held,
                   bundleWire, bundleRes, objA, objB, idA, idB, idA2,
                   patInput, verdict, rendered, buildVars, queryVars>>

CallAnd ==
    /\ rendered = NotBuilt /\ Len(calls) < MaxCalls
    /\ parts' = PatternBuilder_and(parts)
    /\ calls' = Append(calls, [op |-> "and", args |-> <<>>])
    /\ UNCHANGED <<now, wire, res, resAt, res2, enc, redec, held,
                   bundleWire, bundleRes, objA, objB, idA, idB, idA2,
                   patInput, verdict, rendered, buildVars, queryVars>>

CallOr ==
    /\ rendered = NotBuilt /\ Len(calls) < MaxCalls
    /\ parts' = PatternBuilder_or(parts)
    /\ calls' = Append(calls, [op |-> "or", args |-> <<>>])
    /\ UNCHANGED <<now, wire, res, resAt, res2, enc, redec, held,
                   bundleWire, bundleRes, objA, objB, idA, idB, idA2,
                   patInput, verdict, rendered, buildVars, queryVars>>

CallBuild ==
    /\ rendered = NotBuilt
    /\ rendered' = PatternBuilder_build(parts)
    /\ UNCHANGED <<now, wire, res, resAt, res2, enc, redec, held,
                   bundleWire, bundleRes, objA, objB, idA, idB, idA2,
                   patInput, verdict, parts, calls, buildVars, queryVars>>

ValidateRendered ==
    /\ rendered # NotBuilt /\ verdict = Nil
    /\ verdict' = validate_pattern(rendered)
    /\ UNCHANGED <<now, wire, res, resAt, res2, enc, redec, held,
                   bundleWire, bundleRes, objA, objB, idA, idB, idA2,
                   patInput, parts, calls, rendered, buildVars, queryVars>>

NextBuilder ==
    \/ CallCompare
    \/ CallAnd
    \/ CallOr
    \/ CallBuild
    \/ ValidateRendered

SpecBuilder == Init /\ [][NextBuilder]_vars

(***************************************************************************)
(* IndicatorBuilder: a caller applies setters to a builder and builds.     *)
(***************************************************************************)
ConfigureIndicator ==
    /\ indBuilder = Nil /\ reqBuilder = Nil
    /\ indBuilder' \in IndicatorBuilders
    /\ UNCHANGED <<now, wire, res, resAt, res2, enc, redec, held,
                   bundleWire, bundleRes, objA, objB, idA, idB, idA2,
                   patternVars, orig, versions, indRes, queryVars>>

BuildIndicator ==
    /\ indBuilder # Nil /\ indRes = Nil
    /\ \E u \in Uuids : indRes' = IndicatorBuilder_build(indBuilder, u, now)
    /\ UNCHANGED <<now, wire, res, resAt, res2, enc, redec, held,
                   bundleWire, bundleRes, objA, objB, idA, idB, idA2,
                   patternVars, orig, versions, indBuilder, queryVars>>

CheckIndicator ==
    /\ indRes # Nil /\ indRes.ok /\ indCheck = Nil
    /\ indCheck' = Indicator_validate_pattern(indRes.obj)
    /\ UNCHANGED <<now, wire, res, resAt, res2, enc, redec, held,
                   bundleWire, bundleRes, objA, objB, idA, idB, idA2,
                   patternVars, buildVars, reqBuilder, reqRes, createdRes, getRes>>

NextIndicator ==
    \/ Tick
    \/ ConfigureIndicator
    \/ BuildIndicator
    \/ CheckIndicator

SpecIndicator == Init /\ [][NextIndicator]_vars

(***************************************************************************)
(* Creation time: a caller holds an object, decoded or built, and asks for *)
(* its creation time while the clock advances.                             *)
(***************************************************************************)
CallCreated ==
    /\ held # Nil /\ createdRes = Nil
    /\ createdRes' = created(held, now)
    /\ UNCHANGED <<now, wire, res, resAt, res2, enc, redec, held,
                   bundleWire, bundleRes, objA, objB, idA, idB, idA2,
                   patternVars, buildVars, indCheck, reqBuilder, reqRes, getRes>>

NextCreated ==
    \/ Tick
    \/ Receive
    \/ Decode
    \/ BuildIdentity
    \/ BuildFile
    \/ CallCreated

SpecCreated == Init /\ [][NextCreated]_vars

(***************************************************************************)
(* Required fields: a caller applies setters to one builder, of an         *)
(* Indicator, a Sighting, a Malware or an Identity, and builds.            *)
(***************************************************************************)
ConfigureBuilder ==
    /\ reqBuilder = Nil /\ indBuilder = Nil
    /\ reqBuilder' \in RequiredBuilders
    /\ UNCHANGED <<now, wire, res, resAt, res2, enc, redec, held,
                   bundleWire, bundleRes, objA, objB, idA, idB, idA2,
                   patternVars, buildVars, indCheck, reqRes, createdRes, getRes>>

BuildMalware ==
    /\ reqBuilder # Nil /\ reqBuilder.kind = "Malware" /\ reqRes = Nil
    /\ \E u \in Uuids : reqRes' = MalwareBuilder_build(reqBuilder.b, u, now)
    /\ UNCHANGED <<now, wire, res, resAt, res2, enc, redec, held,
                   bundleWire, bundleRes, objA, objB, idA, idB, idA2,
                   patternVars, buildVars, indCheck, reqBuilder, createdRes, getRes>>

BuildSighting ==
    /\ reqBuilder # Nil /\ reqBuilder.kind = "Sighting" /\ reqRes = Nil
    /\ \E u \in Uuids : reqRes' = SightingBuilder_build(reqBuilder.b, u, now)
    /\ UNCHANGED <<now, wire, res, resAt, res2, enc, redec, held,
                   bundleWire, bundleRes, objA, objB, idA, idB, idA2,
                   patternVars, buildVars, indCheck, reqBuilder, createdRes, getRes>>

BuildIdentityOutcome ==
    /\ reqBuilder # Nil /\ reqBuilder.kind = "Identity" /\ reqRes = Nil
    /\ \E u \in Uuids : reqRes' = IdentityBuilder_build(reqBuilder.b, u, now)
    /\ UNCHANGED <<now, wire, res, resAt, res2, enc, redec, held,
                   bundleWire, bundleRes, objA, objB, idA, idB, idA2,
                   patternVars, buildVars, indCheck, reqBuilder, createdRes, getRes>>

NextRequired ==
    \/ Tick
    \/ ConfigureIndicator
    \/ BuildIndicator
    \/ ConfigureBuilder
    \/ BuildMalware
    \/ BuildSighting
    \/ BuildIdentityOutcome

SpecRequired == Init /\ [][NextRequired]_vars

(***************************************************************************)
(* Properties of the dispatcher.                                           *)
(***************************************************************************)
TableTypes == {MatchArms[i].pat : i \in {q \in DOMAIN MatchArms : MatchArms[q].variant # "Custom"}}

WireTypeString == wire.m["type"].s

\* C1: a type string that is not exactly a table entry and does not start with
\* x- is rejected with the unknown-type error carrying that string, and a known
\* case is only ever selected (or entered and failed in) for its exact string
C1_UnknownTypeRejected ==
    (res # Nil /\ HasTypeString(wire)) =>
        /\ (WireTypeString \notin TableTypes /\ ~StartsWith(WireTypeString, "x-"))
              => res = Err(UnknownType(WireTypeString))
        /\ (res.ok /\ res.obj.variant # "Custom")
              => WireTypeString = MatchArms[WireType(res.obj.variant)].pat
        /\ (~res.ok /\ res.src = "concrete")
              => WireTypeString = MatchArms[WireType(res.variant)].pat

C1_Witness ==
    /\ res # Nil /\ HasTypeString(wire)
    /\ WireTypeString = "Malware"
    /\ res = Err(UnknownType("Malware"))

\* the members of a JSON text are exactly the members of a map, each once
SameMembers(text, m) ==
    /\ Len(text) = Cardinality(DOMAIN m)
    /\ \A i \in DOMAIN text : text[i][1] \in DOMAIN m /\ m[text[i][1]] = text[i][2]

\* C2: a value whose type starts with x- decodes to Custom holding the whole
\* value, and encoding that object writes exactly the members of the value
C2_CustomRoundTrip ==
    (res # Nil /\ enc # Nil /\ HasTypeString(wire)
       /\ StartsWith(WireTypeString, "x-") /\ WireTypeString \notin TableTypes) =>
        /\ res.ok /\ res.obj.variant = "Custom" /\ res.obj.custom = wire.m
        /\ SameMembers(enc, wire.m)

\* C3: a value without a string under `type` is rejected with the
\* missing-or-invalid-type error and yields no object
C3_MissingTypeRejected ==
    (res # Nil /\ ~HasTypeString(wire)) => res = Err(MissingOrInvalidType)

C3_Witness ==
    /\ res # Nil /\ wire.j = "obj" /\ "type" \in DOMAIN wire.m
    /\ wire.m["type"].j = "num" /\ ~res.ok

\* C5: decoding the text written for any held object gives back that object
C5_RoundTrip == redec # Nil => (redec.ok /\ redec.obj = held)

C7_DecodePure == (res # Nil /\ res2 # Nil) => res2 = res

(***************************************************************************)
(* Properties of bundle decoding.                                          *)
(***************************************************************************)
BundleElements == bundleWire.m["objects"].a

\* C4: when a bundle whose objects member is an array is decoded, the decode
\* succeeds, and every element that decodes on its own is among its objects,
\* whatever its siblings are
C4_FailureConfined ==
    (bundleRes # Nil /\ "objects" \in DOMAIN bundleWire.m /\ bundleWire.m["objects"].j = "arr") =>
        /\ bundleRes.ok
        /\ \A i \in DOMAIN BundleElements :
              Deserialize(BundleElements[i], resAt).ok =>
                 \E q \in DOMAIN bundleRes.obj.objects :
                    bundleRes.obj.objects[q] = Deserialize(BundleElements[i], resAt).obj

(***************************************************************************)
(* Properties of observable identifiers.                                   *)
(***************************************************************************)
SentinelKinds ==
    {"Process", "Artifact", "NetworkTraffic", "EmailMessage", "SocketAddr",
     "SoftwarePackage", "X509Certificate"}

SelectedKinds == Observables \ SentinelKinds

BothCalled == idA # NoId /\ idB # NoId

HashOf(o, alg) ==
    IF o.named["hashes"] # JNull /\ alg \in DOMAIN o.named["hashes"].m
    THEN o.named["hashes"].m[alg]
    ELSE JNull

\* what a kind's identity is read from: the designated field, for a File the
\* two preferred hashes and the name
IdentityContent(o) ==
    IF o.variant = "File"
    THEN <<HashOf(o, "SHA-256"), HashOf(o, "MD5"), o.named["name"]>>
    ELSE IF o.variant \in SentinelKinds THEN <<>> ELSE <<o.named[DesignatedField(o.variant)]>>

\* C8: two observables of one kind that agree on what the kind's identity is
\* read from have equal ids whatever else they hold, a second call returns the
\* same id, and all instances of a kind without an identity field share one id
C8_IdDependsOnIdentityField ==
    /\ (BothCalled /\ IdentityContent(objA) = IdentityContent(objB)) => idA = idB
    /\ idA2 # NoId => idA2 = idA
    /\ (BothCalled /\ objA.variant \in SentinelKinds) => idA = idB

C8_Witness ==
    /\ BothCalled /\ idA2 # NoId
    /\ objA.variant = "Software" /\ objA.named["name"] = JStr("a")
    /\ objB.named["name"] = JStr("a")
    /\ objA.custom # objB.custom /\ objA.named # objB.named
    /\ idA = idB /\ idA2 = idA

\* C9: the id of a File is derived from its SHA-256 hash, else its MD5 hash,
\* else its name, else `unknown`; Files sharing a SHA-256 hash have equal ids
C9_FileIdentityOrder ==
    /\ (idA # NoId /\ objA.variant = "File") =>
          idA = "file--" \o Uuid5(
                   IF HashOf(objA, "SHA-256") # JNull THEN HashOf(objA, "SHA-256").s
                   ELSE IF HashOf(objA, "MD5") # JNull THEN HashOf(objA, "MD5").s
                   ELSE IF objA.named["name"] # JNull THEN objA.named["name"].s
                   ELSE "unknown")
    /\ (BothCalled /\ objA.variant = "File" /\ HashOf(objA, "SHA-256") # JNull
          /\ HashOf(objA, "SHA-256") = HashOf(objB, "SHA-256")) => idA = idB

C9_Witness ==
    /\ BothCalled /\ objA.variant = "File"
    /\ HashOf(objA, "SHA-256") = JStr("aa") /\ HashOf(objB, "SHA-256") = JStr("aa")
    /\ HashOf(objA, "MD5") # HashOf(objB, "MD5")
    /\ objA.named["name"] # objB.named["name"]
    /\ idA = idB

\* C10: two observables of one kind with an identity field whose
\* identity content differs, in value or in presence, have differing ids
C10_DifferingContentDiffers ==
    (BothCalled /\ objA.variant \in SelectedKinds
       /\ IdentityContent(objA) # IdentityContent(objB)) => idA # idB

(***************************************************************************)
(* Properties of identifiers of held objects.                              *)
(***************************************************************************)
IsUuid(u) == u \in {"u1", "u2", "u9"} \/ StartsWith(u, "uuid5(")

\* the positions at which an identifier splits into <kind>--<uuid>
IdSplits(id) ==
    {i \in 2..(Len(id) - 2) : SubSeq(id, i, i + 1) = "--" /\ IsUuid(SubSeq(id, i + 2, Len(id)))}

\* C11: the id of every held object, built or decoded, has the form
\* <kind>--<uuid>, and for a domain or relationship object <kind> is what
\* type_() returns
C11_IdHasKindAndUuid ==
    held # Nil =>
        /\ IdSplits(Id(held)) # {}
        /\ held.variant \notin (Observables \cup {"Custom"}) =>
              \A i \in IdSplits(Id(held)) : SubSeq(Id(held), 1, i - 1) = type_(held)

(***************************************************************************)
(* Properties of versioning.                                               *)
(***************************************************************************)
\* C12: after any number of new_version calls the object differs from what it
\* was before the first call in nothing but `modified`: id, created,
\* discriminant and every other field are as before
C12_OnlyModifiedChanges ==
    versions > 0 =>
        /\ held.variant = orig.variant /\ held.custom = orig.custom
        /\ DOMAIN held.named = DOMAIN orig.named
        /\ \A k \in (DOMAIN orig.named) \ {"modified"} : held.named[k] = orig.named[k]
        /\ Id(held) = Id(orig) /\ type_(held) = type_(orig)

C12_Witness ==
    /\ versions >= 2
    /\ held.named["modified"] # orig.named["modified"]
    /\ held.named["created"] = orig.named["created"]
    /\ held.named["modified"] # held.named["created"]

(***************************************************************************)
(* Properties of the pattern validator.                                    *)
(***************************************************************************)
\* a clause as written passes the comparison checks
ClausePasses(c) == c.colon /\ c.type \in VALID_OBJECT_TYPES /\ c.operator

\* C13: a bracketed text of clauses joined by combiners is accepted only if
\* every one of its clauses has a colon, an object type of the vocabulary and
\* an operator
C13_EveryClauseChecked ==
    (verdict # Nil /\ patInput.wrap = "composed" /\ verdict = PatOk) =>
        \A i \in DOMAIN patInput.clauses : ClausePasses(patInput.clauses[i])

\* C14: a text whose one clause is a fully bracketed sub-expression gets the
\* verdict of that sub-expression
C14_NestedGrouping ==
    (verdict # Nil /\ patInput.wrap = "composed" /\ Len(patInput.clauses) = 1
       /\ patInput.clauses[1].bracketed) =>
        verdict = validate_pattern(patInput.clauses[1].text)

\* C15: on the trimmed text the verdict is MissingBrackets unless it starts
\* with [ and ends with ], else UnbalancedBrackets if it holds unequal numbers
\* of [ and ], else EmptyPattern if nothing but spaces lies between the outer
\* brackets
C15_StructuralChecksInOrder ==
    verdict # Nil =>
        LET t == trim(patInput.text)
        IN IF ~(starts_with(t, "[") /\ ends_with(t, "]"))
           THEN verdict = PatErr("MissingBrackets")
           ELSE IF count(t, "[") # count(t, "]")
                THEN verdict = PatErr("UnbalancedBrackets")
                ELSE trim(SubSeq(t, 2, Len(t) - 1)) = "" => verdict = PatErr("EmptyPattern")

C15_Witness ==
    /\ verdict = PatErr("MissingBrackets")
    /\ patInput.wrap = "open" /\ patInput.text = "[file:name = '['"

\* C16: a text of one clause that is not bracketed gets MissingColon if the
\* clause has no colon, else InvalidObjectType with the object type as written
\* without its padding if that is not one of the 18 of the vocabulary, else
\* MissingOperator if none of the 11 operators follows, else it is accepted
C16_ClauseChecksInOrder ==
    /\ Cardinality(VALID_OBJECT_TYPES) = 18 /\ Len(VALID_OPERATORS) = 11
    /\ (verdict # Nil /\ patInput.wrap = "composed" /\ Len(patInput.clauses) = 1
          /\ ~patInput.clauses[1].bracketed) =>
          LET c == patInput.clauses[1]
          IN verdict = IF ~c.colon THEN PatErr("MissingColon")
                       ELSE IF c.type \notin VALID_OBJECT_TYPES THEN InvalidObjectType(c.type)
                       ELSE IF ~c.operator THEN PatErr("MissingOperator")
                       ELSE PatOk

C16_Witness ==
    /\ verdict = PatOk /\ patInput.wrap = "composed" /\ Len(patInput.clauses) = 1
    /\ patInput.clauses[1].text = "url :value IN (1)"

(***************************************************************************)
(* Properties of PatternBuilder.                                           *)
(***************************************************************************)
IsCombinerCall(c) == c.op \in {"and", "or"}

\* compare (combiner compare)*, every compare of the vocabulary with a valid
\* operator and a value free of combiner keywords
WellFormedCalls(cs) ==
    /\ Len(cs) % 2 = 1
    /\ \A i \in DOMAIN cs :
          IF i % 2 = 1
          THEN /\ cs[i].op = "compare"
               /\ cs[i].args[1] \in VALID_OBJECT_TYPES
               /\ \E q \in DOMAIN VALID_OPERATORS : cs[i].args[3] = VALID_OPERATORS[q]
               /\ \A q \in DOMAIN VALID_COMBINERS : ~contains(cs[i].args[4], VALID_COMBINERS[q])
          ELSE IsCombinerCall(cs[i])

\* C17: the text built by a well-formed call sequence is accepted
C17_WellFormedAccepted ==
    (verdict # Nil /\ rendered # NotBuilt /\ WellFormedCalls(calls)) => verdict = PatOk

\* after a first compare, two combiner calls in a row or a combiner call last
MisusedCalls(cs) ==
    \E i \in DOMAIN cs :
        /\ IsCombinerCall(cs[i])
        /\ \E q \in 1..(i - 1) : cs[q].op = "compare"
        /\ i = Len(cs) \/ IsCombinerCall(cs[i + 1])

\* C18: the text built by a call sequence with two combiners in a row or a
\* trailing combiner is refused by the validator with a PatternError
C18_MisuseSurfaces ==
    (verdict # Nil /\ rendered # NotBuilt /\ MisusedCalls(calls)) => verdict.r = "err"

\* what the calls up to the i-th contribute to the text; any tells whether a
\* part was added before
RECURSIVE TextOfCalls(_, _, _)
TextOfCalls(cs, i, any) ==
    IF i > Len(cs) THEN ""
    ELSE IF cs[i].op = "compare"
         THEN cs[i].args[1] \o ":" \o cs[i].args[2] \o " " \o cs[i].args[3] \o " "
                 \o cs[i].args[4] \o TextOfCalls(cs, i + 1, TRUE)
         ELSE (IF ~any THEN "" ELSE IF cs[i].op = "and" THEN " AND " ELSE " OR ")
                 \o TextOfCalls(cs, i + 1, any)

\* C19: build returns [ and ] around the texts of the calls in call order, a
\* combiner called before any part was added contributing nothing, so that
\* the text never starts with a combiner
C19_BuildRendersCalls ==
    rendered # NotBuilt =>
        /\ rendered = "[" \o TextOfCalls(calls, 1, FALSE) \o "]"
        /\ ~StartsWith(rendered, "[ AND ") /\ ~StartsWith(rendered, "[ OR ")

C19_Witness ==
    /\ rendered = "[file:name = 'a' OR url:value IN (1) AND ]"
    /\ Len(calls) = 5 /\ calls[1].op = "and"

(***************************************************************************)
(* Properties of IndicatorBuilder.                                         *)
(***************************************************************************)
RequiredSet(b) == b.pattern # JNull /\ b.pattern_type # JNull /\ b.valid_from # JNull

\* C20: with pattern, pattern type and valid_from set, build succeeds for any
\* pattern when validation is off; when it is on and the type is stix, build
\* succeeds exactly when validate_pattern accepts the pattern, and otherwise
\* returns a builder error
C20_PatternErrorsAdvisory ==
    (indRes # Nil /\ RequiredSet(indBuilder)) =>
        /\ ~indBuilder.validate_pattern => indRes.ok
        /\ (indBuilder.validate_pattern /\ indBuilder.pattern_type = JStr("stix")) =>
              /\ indRes.ok <=> validate_pattern(indBuilder.pattern.s) = PatOk
              /\ ~indRes.ok => indRes.src = "builder"

\* C21: with pattern, pattern type and valid_from set and a pattern type other
\* than stix, build succeeds whatever the pattern and the validation flag are,
\* and validate_pattern on the built Indicator returns Ok
C21_NonStixNeverValidated ==
    (indRes # Nil /\ RequiredSet(indBuilder) /\ indBuilder.pattern_type # JStr("stix")) =>
        /\ indRes.ok
        /\ indRes.obj.named["pattern"] = indBuilder.pattern
        /\ indCheck # Nil => indCheck = PatOk

C21_Witness ==
    /\ indCheck = PatOk /\ indBuilder.validate_pattern
    /\ indBuilder.pattern_type = JStr("yara")
    /\ validate_pattern(indBuilder.pattern.s) = SlicePanic

(***************************************************************************)
(* Properties of the builders' required fields.                            *)
(***************************************************************************)
\* the required fields of a builder in the order build() checks them
RequiredOrder(kind) ==
    CASE kind = "Indicator" -> <<"pattern", "pattern_type", "valid_from">>
      [] kind = "Sighting" -> <<"count", "sighting_of_ref", "where_sighted_refs">>
      [] kind = "Malware" -> <<"name">>
      [] kind = "Identity" -> <<"name">>

\* f is the first required field of kind that b leaves unset
FirstUnset(kind, b, f) ==
    \E i \in DOMAIN RequiredOrder(kind) :
       /\ RequiredOrder(kind)[i] = f /\ b[f] = JNull
       /\ \A q \in 1..(i - 1) : b[RequiredOrder(kind)[q]] # JNull

\* C22: when build() of an Indicator, Sighting or Malware builder returns
\* MissingField(f), f is the first required field in the check order that was
\* not set
C22_ErrorNamesMissingField ==
    /\ (indRes # Nil /\ ~indRes.ok /\ indRes.src = "builder") =>
          FirstUnset("Indicator", indBuilder, indRes.field)
    /\ (reqRes # Nil /\ reqBuilder.kind \in {"Sighting", "Malware"} /\ ~reqRes.ok) =>
          /\ reqRes.src = "builder"
          /\ FirstUnset(reqBuilder.kind, reqBuilder.b, reqRes.field)

\* C23: build() of an Identity builder whose name is set and whose identity
\* class was never set returns an error
C23_IdentityNeedsClass ==
    (reqRes # Nil /\ reqBuilder.kind = "Identity" /\ reqBuilder.b.name # JNull
       /\ reqBuilder.b.identity_class = JNull) =>
        ~reqRes.ok

(***************************************************************************)
(* Properties of the creation time.                                        *)
(***************************************************************************)
\* C24: created() on an object of a kind that embeds CommonProperties returns
\* the created timestamp the object carries
C24_CreatedIsEmbedded ==
    (createdRes # Nil /\ HasCommon(held.variant) /\ held.variant # "Custom") =>
        createdRes = held.named["created"]

(***************************************************************************)
(* Properties of the Indicator's wire keys.                                *)
(***************************************************************************)
\* C25: a decoded Indicator whose wire form spells valid-from and pattern-type
\* with hyphens (and has no member of the underscore spelling) has the wire's
\* valid-from instant as valid_from and the wire's pattern-type as pattern_type
C25_KebabKeysPopulate ==
    (res # Nil /\ res.ok /\ res.obj.variant = "Indicator") =>
        /\ ("valid-from" \in DOMAIN wire.m /\ "valid_from" \notin DOMAIN wire.m
              /\ AcceptsFlat("time", wire.m["valid-from"])) =>
              res.obj.named["valid_from"] = RTime(ParseTime(wire.m["valid-from"].s))
        /\ ("pattern-type" \in DOMAIN wire.m /\ "pattern_type" \notin DOMAIN wire.m
              /\ AcceptsFlat("IndicatorPatternType", wire.m["pattern-type"])) =>
              res.obj.named["pattern_type"] = wire.m["pattern-type"]

(***************************************************************************)
(* Properties of the splitting and of the validator's returns.             *)
(***************************************************************************)
\* the clauses of a composed text as they lie between its combiner keywords:
\* each clause with the space that separates it from the keyword
RECURSIVE PartsBetween(_, _)
PartsBetween(cs, i) ==
    IF i > Len(cs) THEN <<>>
    ELSE <<(IF i > 1 THEN " " ELSE "") \o cs[i].text \o (IF i < Len(cs) THEN " " ELSE "")>>
         \o PartsBetween(cs, i + 1)

\* the text between the outer brackets, as validate_pattern passes it on
Interior(text) == trim(SubSeq(trim(text), 2, Len(trim(text)) - 1))

\* C26: the interior of a bracketed text of clauses joined by combiners is
\* split at every combiner keyword that joins two clauses and at no keyword
\* inside a quoted value, and the parts are the clauses in their order
C26_SplitAtEveryCombiner ==
    (verdict # Nil /\ patInput.wrap = "composed") =>
        /\ ~split_by_combiners(Interior(patInput.text)).panic
        /\ split_by_combiners(Interior(patInput.text)).parts = PartsBetween(patInput.clauses, 1)

\* C27: no validation ends in the panic of a slice whose start lies behind
\* its end
C27_NeverPanics ==
    verdict # Nil => verdict # SlicePanic

\* C28: for a text whose interior is itself bracketed the validator calls
\* itself on a shorter text, and the validation returns
C28_RecursionShrinks ==
    (verdict # Nil /\ starts_with(trim(patInput.text), "[") /\ ends_with(trim(patInput.text), "]")
       /\ count(trim(patInput.text), "[") = count(trim(patInput.text), "]")
       /\ starts_with(Interior(patInput.text), "[") /\ ends_with(Interior(patInput.text), "]")
       /\ split_by_combiners(Interior(patInput.text)).parts = <<Interior(patInput.text)>>) =>
        /\ Len("[" \o Interior(patInput.text) \o "]") < Len(trim(patInput.text))
        /\ verdict # StackOverflow

(***************************************************************************)
(* Properties of Bundle::get.                                              *)
(***************************************************************************)
\* positions of the bundle's objects whose id() is the one asked for
Hits == {i \in DOMAIN bundleRes.obj.objects : Id(bundleRes.obj.objects[i]) = getRes.arg}

\* C29: get(id) returns None when no object of the bundle has that id() and
\* otherwise a reference to the first object in bundle order that has it; the
\* bundle is as it was before the call
C29_GetFindsFirst ==
    getRes # Nil =>
        /\ bundleRes.obj = getRes.before
        /\ IF Hits = {}
           THEN getRes.found = None
           ELSE /\ getRes.found.some
                /\ getRes.found.at \in Hits
                /\ \A q \in Hits : getRes.found.at <= q

C29_Witness ==
    /\ getRes # Nil /\ getRes.found = Some(1)
    /\ Hits = {1, 2}
    /\ bundleRes.obj.objects[1] # bundleRes.obj.objects[2]

(***************************************************************************)
(* Properties of an observable's wire id.                                  *)
(***************************************************************************)
\* an object decoded from a wire form that had an id member no field took
KeptWireId(o) == o # Nil /\ o.variant \in Observables /\ "id" \in DOMAIN o.custom

\* the object as decoded from the same wire form without its id member
WithoutWireId(o) == [o EXCEPT !.custom = Without(o.custom, {"id"})]

\* C30: an observable decoded from a wire form with an id member keeps that
\* member among its custom properties only, its id() is the one it has without
\* the member, and two such observables that agree on what the identity is read
\* from have equal ids whatever their wire ids are
C30_WireIdIgnored ==
    /\ (idA # NoId /\ KeptWireId(objA)) =>
          /\ "id" \notin DOMAIN objA.named
          /\ idA = Id(WithoutWireId(objA))
    /\ (BothCalled /\ KeptWireId(objA) /\ KeptWireId(objB)
          /\ IdentityContent(objA) = IdentityContent(objB)) => idA = idB

C30_Witness ==
    /\ BothCalled /\ KeptWireId(objA) /\ KeptWireId(objB)
    /\ objA.variant = "File"
    /\ objA.custom["id"] = JStr("file--u1") /\ objB.custom["id"] = JStr("file--u2")
    /\ HashOf(objA, "MD5") = JStr("aa") /\ IdentityContent(objA) = IdentityContent(objB)
    /\ idA = idB

====
